---- MODULE Spec2Model ----
(***************************************************************************)
(* Repo-Archaeologist: the history index of GitAnalyzer                    *)
(* (src/src/analyzers/git-analyzer.js) and the call graph / dead-code      *)
(* detector of StaticAnalyzer (src/src/analyzers/static-analyzer.js).      *)
(*                                                                         *)
(* Text is modelled as a sequence of tokens: the separators "/", ".",      *)
(* "\\", " ", "@", "~", "*", "TAB" and "NL" are tokens of their own, every  *)
(* other token is a run of ordinary characters.  All string functions of the code (split, *)
(* trim, replace, startsWith, path.resolve, ...) work on these sequences.  *)
(***************************************************************************)
EXTENDS Integers, Sequences, FiniteSets, TLC

\* ------------------------------------------------------------------------
\* Strings (token sequences)
\* ------------------------------------------------------------------------

SLASH == "/"
DOT == "."
BSLASH == "\\"
SPACE == " "
TAB == "TAB"
NL == "NL"
AT == "@"
TILDE == "~"
STAR == "*"

Str(tok) == <<tok>>

\* index of the first occurrence of token sep in s, 0 when there is none
FirstIndex(s, sep) ==
  IF \E i \in 1..Len(s) : s[i] = sep
  THEN CHOOSE i \in 1..Len(s) : s[i] = sep /\ \A j \in 1..(i - 1) : s[j] # sep
  ELSE 0

\* index of the last occurrence of token sep in s, 0 when there is none
LastIndex(s, sep) ==
  IF \E i \in 1..Len(s) : s[i] = sep
  THEN CHOOSE i \in 1..Len(s) : s[i] = sep /\ \A j \in (i + 1)..Len(s) : s[j] # sep
  ELSE 0

\* the element of a set of one element: { e(x) : x \in {a} } computes the
\* argument a once, however often e uses it
TheOne(S) == CHOOSE x \in S : TRUE

\* String.prototype.split(sep): always at least one part
RECURSIVE SplitOn(_, _)
SplitOn(s, sep) ==
  TheOne({ LET i == FirstIndex(text, sep)
           IN IF i = 0 THEN <<text>>
              ELSE <<SubSeq(text, 1, i - 1)>> \o SplitOn(SubSeq(text, i + 1, Len(text)), sep) :
           text \in {s} })

\* Array.prototype.join(sep)
RECURSIVE JoinWith(_, _)
JoinWith(parts, sep) ==
  TheOne({ IF list = <<>> THEN <<>>
           ELSE IF Len(list) = 1 THEN list[1]
           ELSE list[1] \o <<sep>> \o JoinWith(Tail(list), sep) :
           list \in {parts} })

StartsWith(s, p) == Len(p) <= Len(s) /\ SubSeq(s, 1, Len(p)) = p

EndsWith(s, p) == Len(p) <= Len(s) /\ SubSeq(s, Len(s) - Len(p) + 1, Len(s)) = p

IsSpace(tok) == tok \in {SPACE, TAB, NL}

\* String.prototype.trim()
RECURSIVE TrimLeft(_)
TrimLeft(s) == IF s # <<>> /\ IsSpace(s[1]) THEN TrimLeft(Tail(s)) ELSE s

RECURSIVE TrimRight(_)
TrimRight(s) ==
  IF s # <<>> /\ IsSpace(s[Len(s)]) THEN TrimRight(SubSeq(s, 1, Len(s) - 1)) ELSE s

Trim(s) == TrimRight(TrimLeft(s))

\* s.replace(/\\/g, '/')
ToForwardSlashes(s) == [i \in 1..Len(s) |-> IF s[i] = BSLASH THEN SLASH ELSE s[i]]

SeqToSet(s) == {s[i] : i \in 1..Len(s)}

Includes(s, x) == \E i \in 1..Len(s) : s[i] = x

\* ------------------------------------------------------------------------
\* node:path (posix)
\* ------------------------------------------------------------------------

\* process.cwd() of the run
Cwd == <<SLASH, "home">>

DotSeg == <<DOT>>
DotDotSeg == <<DOT, DOT>>

IsAbsolute(p) == p # <<>> /\ p[1] = SLASH

\* normalizeString of node:path on the list of segments
RECURSIVE NormalizeSegs(_, _, _)
NormalizeSegs(segments, normalized, allowAboveRoot) ==
  TheOne({
    IF segs = <<>> THEN acc
    ELSE LET seg == Head(segs)
             rest == Tail(segs)
         IN IF seg = <<>> \/ seg = DotSeg
            THEN NormalizeSegs(rest, acc, allowAboveRoot)
            ELSE IF seg = DotDotSeg
            THEN IF acc # <<>> /\ acc[Len(acc)] # DotDotSeg
                 THEN NormalizeSegs(rest, SubSeq(acc, 1, Len(acc) - 1), allowAboveRoot)
                 ELSE IF allowAboveRoot
                 THEN NormalizeSegs(rest, Append(acc, seg), allowAboveRoot)
                 ELSE NormalizeSegs(rest, acc, allowAboveRoot)
            ELSE NormalizeSegs(rest, Append(acc, seg), allowAboveRoot) :
    segs \in {segments}, acc \in {normalized} })

\* path.normalize(p)
PathNormalize(p) ==
  IF p = <<>> THEN DotSeg
  ELSE LET abs == IsAbsolute(p)
           trailing == p[Len(p)] = SLASH
           body == JoinWith(NormalizeSegs(SplitOn(p, SLASH), <<>>, ~abs), SLASH)
       IN IF body = <<>>
          THEN IF abs THEN <<SLASH>> ELSE IF trailing THEN <<DOT, SLASH>> ELSE DotSeg
          ELSE (IF abs THEN <<SLASH>> ELSE <<>>) \o body
               \o (IF trailing THEN <<SLASH>> ELSE <<>>)

\* path.resolve(from, to): an absolute, normalized path without trailing slash
PathResolve(from, to) ==
  LET base == IF IsAbsolute(from) THEN from
              ELSE IF from = <<>> THEN Cwd ELSE Cwd \o <<SLASH>> \o from
      joined == IF IsAbsolute(to) THEN to
                ELSE IF to = <<>> THEN base ELSE base \o <<SLASH>> \o to
  IN <<SLASH>> \o JoinWith(NormalizeSegs(SplitOn(joined, SLASH), <<>>, FALSE), SLASH)

\* the non-empty segments of an absolute normalized path
AbsSegs(p) == NormalizeSegs(SplitOn(p, SLASH), <<>>, FALSE)

RECURSIVE CommonPrefixLen(_, _)
CommonPrefixLen(a, b) ==
  IF a = <<>> \/ b = <<>> THEN 0
  ELSE IF Head(a) = Head(b) THEN 1 + CommonPrefixLen(Tail(a), Tail(b))
  ELSE 0

\* path.relative(from, to)
PathRelative(from, to) ==
  TheOne({ LET k == CommonPrefixLen(f, t)
               ups == [i \in 1..(Len(f) - k) |-> DotDotSeg]
           IN JoinWith(ups \o SubSeq(t, k + 1, Len(t)), SLASH) :
           f \in {AbsSegs(PathResolve(from, <<>>))}, t \in {AbsSegs(PathResolve(to, <<>>))} })

\* path.dirname(p) of a path
PathDirname(p) ==
  LET i == LastIndex(p, SLASH)
  IN IF i = 0 THEN DotSeg
     ELSE IF i = 1 THEN <<SLASH>>
     ELSE SubSeq(p, 1, i - 1)

\* the last segment of p (path.basename(p) without suffix)
LastSegment(p) == SubSeq(p, LastIndex(p, SLASH) + 1, Len(p))

\* path.extname(p): from the last "." of the last segment, "" when that dot
\* is the first character of the segment or the segment is ".."
PathExtname(p) ==
  LET b == LastSegment(p)
      i == LastIndex(b, DOT)
  IN IF i <= 1 \/ b = DotDotSeg THEN <<>>
     ELSE SubSeq(b, i, Len(b))

\* path.basename(p, ext)
PathBasename(p, ext) ==
  LET b == LastSegment(p)
  IN IF ext # <<>> /\ Len(b) > Len(ext)
        /\ SubSeq(b, Len(b) - Len(ext) + 1, Len(b)) = ext
     THEN SubSeq(b, 1, Len(b) - Len(ext))
     ELSE b

\* path.join(a, b)
PathJoin(a, b) ==
  PathNormalize(IF a = <<>> THEN b ELSE IF b = <<>> THEN a ELSE a \o <<SLASH>> \o b)

\* ------------------------------------------------------------------------
\* The repository the analyzer looks at (the version-control collaborator)
\* ------------------------------------------------------------------------

RepoPath == <<SLASH, "repo">>

FileA == <<"a", DOT, "js">>
FileB == <<"lib", SLASH, "b", DOT, "js">>

\* tokens that match /^[0-9a-f]{7,40}$/i
HexTokens == {"abc0001", "abc0002", "abc0003", "abc0004", "abc0005"}

IsCommitHash(s) == Len(s) = 1 /\ s[1] \in HexTokens

NaN == -1

\* Date.parse / new Date(s) in days; NaN for a text that is no date
DateParse(s) ==
  IF Len(s) # 1 THEN NaN
  ELSE CASE s[1] = "2024-01-01" -> 1
         [] s[1] = "2024-01-03" -> 3
         [] s[1] = "2024-01-05" -> 5
         [] OTHER -> NaN

\* Date.now() of the run, in days
Now == 6

GitCommit(h, a, d, m, fs) ==
  [hash |-> Str(h), author_name |-> Str(a), date |-> Str(d), message |-> Str(m), files |-> fs]

\* the history the repository holds, most recent commit first
ThreeCommits ==
  << GitCommit("abc0003", "ann", "2024-01-05", "third", <<FileB>>),
     GitCommit("abc0002", "ann", "2024-01-03", "second", <<FileA, FileB>>),
     GitCommit("abc0001", "bob", "2024-01-01", "first", <<FileA>>) >>

CommitInfo(c) ==
  [hash |-> c.hash, author_name |-> c.author_name, date |-> c.date, message |-> c.message]

RECURSIVE FormatFiles(_)
FormatFiles(fs) == IF fs = <<>> THEN <<>> ELSE Head(fs) \o <<NL>> \o FormatFiles(Tail(fs))

\* git log --name-only --date=iso-strict --pretty=format:%H%x09%an%x09%aI%x09%s
RECURSIVE FormatLog(_)
FormatLog(commits) ==
  IF commits = <<>> THEN <<>>
  ELSE LET c == Head(commits)
       IN c.hash \o <<TAB>> \o c.author_name \o <<TAB>> \o c.date \o <<TAB>> \o c.message
          \o <<NL>> \o FormatFiles(c.files)
          \o (IF Tail(commits) = <<>> THEN <<>> ELSE <<NL>> \o FormatLog(Tail(commits)))

\* git log --follow -- <file>: the commits that touch the file
RECURSIVE GitLogFile(_, _)
GitLogFile(commits, file) ==
  IF commits = <<>> THEN <<>>
  ELSE (IF Includes(Head(commits).files, file) THEN <<CommitInfo(Head(commits))>> ELSE <<>>)
       \o GitLogFile(Tail(commits), file)

\* git ls-files
RECURSIVE TrackedFiles(_)
TrackedFiles(commits) ==
  IF commits = <<>> THEN {}
  ELSE SeqToSet(Head(commits).files) \cup TrackedFiles(Tail(commits))

\* ------------------------------------------------------------------------
\* GitAnalyzer: pure parts
\* ------------------------------------------------------------------------

\* Map.prototype.set
MapSet(m, k, v) == [x \in (DOMAIN m) \cup {k} |-> IF x = k THEN v ELSE m[x]]

\* Map.prototype.get(k) || []
MapGetOrEmpty(m, k) == IF k \in DOMAIN m THEN m[k] ELSE <<>>

EmptyMap == [x \in {} |-> <<>>]

\* a mutation of _normalizeFilePath: the path is not made relative
_normalizeFilePath_asGiven(filePath) == ToForwardSlashes(Trim(filePath))

_normalizeFilePath(filePath) ==
  LET trimmed == Trim(filePath)
      absolutePath == IF IsAbsolute(trimmed) THEN PathNormalize(trimmed)
                      ELSE PathResolve(RepoPath, trimmed)
      relativePath == PathRelative(RepoPath, absolutePath)
  IN IF trimmed = <<>> THEN <<>>
     ELSE IF StartsWith(relativePath, DotDotSeg) \/ IsAbsolute(relativePath) THEN <<>>
     ELSE ToForwardSlashes(relativePath)

NoCommit == [hash |-> <<>>]

EmptyIndex ==
  [commits |-> <<>>, commitFilesMap |-> EmptyMap, fileCommitsMap |-> EmptyMap,
   currentCommit |-> NoCommit]

\* a mutation of the push: the commit is put in front
PushCommit_front(list, commit) == <<commit>> \o list

\* fileCommitsMap.get(normalizedFile).push(currentCommit)
PushCommit(list, commit) == Append(list, commit)

\* a mutation of the test: lines before the first header are taken too
HasCurrentCommit_always(currentCommit) == TRUE

\* if (!currentCommit) return: a header line has been met
HasCurrentCommit(currentCommit) == currentCommit # NoCommit

\* one iteration of the forEach over the lines of the log
ParseLine(st, line) ==
  LET headerParts == SplitOn(line, TAB)
      normalizedFile == ToForwardSlashes(Trim(line))
  IN IF line = <<>> THEN st
     ELSE IF Len(headerParts) >= 4 /\ IsCommitHash(headerParts[1])
     THEN LET commit == [hash |-> headerParts[1], author_name |-> headerParts[2],
                         date |-> headerParts[3],
                         message |-> JoinWith(SubSeq(headerParts, 4, Len(headerParts)), TAB)]
          IN [commits |-> Append(st.commits, commit),
              commitFilesMap |-> MapSet(st.commitFilesMap, commit.hash, <<>>),
              fileCommitsMap |-> st.fileCommitsMap,
              currentCommit |-> commit]
     ELSE IF ~HasCurrentCommit(st.currentCommit) THEN st
     ELSE IF normalizedFile = <<>> THEN st
     ELSE LET hash == st.currentCommit.hash
              commitFiles == MapGetOrEmpty(st.commitFilesMap, hash)
          IN [commits |-> st.commits,
              commitFilesMap |->
                IF Includes(commitFiles, normalizedFile) THEN st.commitFilesMap
                ELSE MapSet(st.commitFilesMap, hash, Append(commitFiles, normalizedFile)),
              fileCommitsMap |->
                MapSet(st.fileCommitsMap, normalizedFile,
                       PushCommit(MapGetOrEmpty(st.fileCommitsMap, normalizedFile),
                                  st.currentCommit)),
              currentCommit |-> st.currentCommit]

RECURSIVE ParseLines(_, _)
ParseLines(st, lines) ==
  IF lines = <<>> THEN st ELSE ParseLines(ParseLine(st, Head(lines)), Tail(lines))

_parseRepositoryLog(rawLog) ==
  LET st == ParseLines(EmptyIndex, SplitOn(rawLog, NL))
  IN [commits |-> st.commits, commitFilesMap |-> st.commitFilesMap,
      fileCommitsMap |-> st.fileCommitsMap]

\* the number a property name that is a canonical array index stands for,
\* -1 for any other name
IntegerKeyValue(key) ==
  IF key = <<"7">> THEN 7 ELSE IF key = <<"12">> THEN 12 ELSE -1

RECURSIVE InsertByKeyValue(_, _)
InsertByKeyValue(sorted, key) ==
  IF sorted = <<>> THEN <<key>>
  ELSE IF IntegerKeyValue(Head(sorted)) <= IntegerKeyValue(key)
  THEN <<Head(sorted)>> \o InsertByKeyValue(Tail(sorted), key)
  ELSE <<key>> \o sorted

RECURSIVE SortByKeyValue(_, _)
SortByKeyValue(keys, acc) ==
  IF keys = <<>> THEN acc ELSE SortByKeyValue(Tail(keys), InsertByKeyValue(acc, Head(keys)))

\* Object.entries of a plain object whose keys were created in the order
\* given: array-index names first, ascending, then the others as created
ObjectKeyOrder(created) ==
  SortByKeyValue(SelectSeq(created, LAMBDA key : IntegerKeyValue(key) >= 0), <<>>)
  \o SelectSeq(created, LAMBDA key : IntegerKeyValue(key) < 0)

\* the authors of the commits in order of first occurrence (the order in
\* which the keys of the authorCounts object are created)
RECURSIVE AuthorsInOrder(_, _)
AuthorsInOrder(commits, seen) ==
  IF commits = <<>> THEN seen
  ELSE AuthorsInOrder(Tail(commits),
                      IF Includes(seen, Head(commits).author_name) THEN seen
                      ELSE Append(seen, Head(commits).author_name))

CountBy(commits, author) ==
  Cardinality({i \in 1..Len(commits) : commits[i].author_name = author})

\* Array.prototype.sort((a, b) => b.commits - a.commits): stable, descending
RECURSIVE InsertByCommits(_, _)
InsertByCommits(sorted, e) ==
  IF sorted = <<>> THEN <<e>>
  ELSE IF Head(sorted).commits >= e.commits
  THEN <<Head(sorted)>> \o InsertByCommits(Tail(sorted), e)
  ELSE <<e>> \o sorted

RECURSIVE SortByCommits(_, _)
SortByCommits(entries, acc) ==
  IF entries = <<>> THEN acc
  ELSE SortByCommits(Tail(entries), InsertByCommits(acc, Head(entries)))

Unknown == <<"Unknown">>

\* a mutation of Ownership: no 'Unknown' when nobody committed
Ownership_noUnknown(commits) ==
  LET authors == ObjectKeyOrder(AuthorsInOrder(commits, <<>>))
      entries == [i \in 1..Len(authors) |->
                    [author |-> authors[i], commits |-> CountBy(commits, authors[i])]]
      sortedAuthors == SortByCommits(entries, <<>>)
  IN [primary |-> IF sortedAuthors = <<>> THEN <<>> ELSE sortedAuthors[1].author,
      contributors |-> sortedAuthors,
      totalCommits |-> Len(commits)]

\* the value getFileOwnership computes from the history of the file
Ownership(commits) ==
  LET authors == ObjectKeyOrder(AuthorsInOrder(commits, <<>>))
      entries == [i \in 1..Len(authors) |->
                    [author |-> authors[i], commits |-> CountBy(commits, authors[i])]]
      sortedAuthors == SortByCommits(entries, <<>>)
  IN [primary |-> IF sortedAuthors = <<>> THEN Unknown ELSE sortedAuthors[1].author,
      contributors |-> sortedAuthors,
      totalCommits |-> Len(commits)]

\* a quotient num/den of the code's floating point arithmetic
Ratio(n, d) == [num |-> n, den |-> d]

Zero == Ratio(0, 1)

\* a mutation of ChangeFrequency: any span other than 0 divides
ChangeFrequency_signedSpan(commits) ==
  IF Len(commits) < 2 THEN Zero
  ELSE LET firstCommit == DateParse(commits[Len(commits)].date)
           lastCommit == DateParse(commits[1].date)
           daysDiff == lastCommit - firstCommit
       IN IF firstCommit # NaN /\ lastCommit # NaN /\ daysDiff # 0
          THEN Ratio(Len(commits), daysDiff)
          ELSE Zero

\* the value getChangeFrequency computes from the history of the file
ChangeFrequency(commits) ==
  IF Len(commits) < 2 THEN Zero
  ELSE LET firstCommit == DateParse(commits[Len(commits)].date)
           lastCommit == DateParse(commits[1].date)
           daysDiff == lastCommit - firstCommit
       IN IF firstCommit # NaN /\ lastCommit # NaN /\ daysDiff > 0
          THEN Ratio(Len(commits), daysDiff)
          ELSE Zero

\* new Set(fileHistory.map(c => c.hash)) in insertion order
RECURSIVE HashesInOrder(_, _)
HashesInOrder(commits, seen) ==
  IF commits = <<>> THEN seen
  ELSE HashesInOrder(Tail(commits),
                     IF Includes(seen, Head(commits).hash) THEN seen
                     ELSE Append(seen, Head(commits).hash))

\* the files of the commits other than the queried one, in order of first
\* occurrence (the order in which the keys of coChangedFiles are created)
RECURSIVE CoFilesInOrder(_, _, _, _)
CoFilesInOrder(index, hashes, normalizedPath, seen) ==
  IF hashes = <<>> THEN seen
  ELSE LET files == MapGetOrEmpty(index.commitFilesMap, Head(hashes))
           fresh == SelectSeq(files, LAMBDA f : f # normalizedPath /\ ~Includes(seen, f))
       IN CoFilesInOrder(index, Tail(hashes), normalizedPath, seen \o fresh)

CoCount(index, hashes, file) ==
  Cardinality({i \in 1..Len(hashes) :
                 Includes(MapGetOrEmpty(index.commitFilesMap, hashes[i]), file)})

\* Array.prototype.sort((a, b) => b.correlation - a.correlation): the entries
\* share the denominator total, so the order is that of the counts
RECURSIVE InsertByCount(_, _)
InsertByCount(sorted, e) ==
  IF sorted = <<>> THEN <<e>>
  ELSE IF Head(sorted).count >= e.count
  THEN <<Head(sorted)>> \o InsertByCount(Tail(sorted), e)
  ELSE <<e>> \o sorted

RECURSIVE SortByCount(_, _)
SortByCount(entries, acc) ==
  IF entries = <<>> THEN acc
  ELSE SortByCount(Tail(entries), InsertByCount(acc, Head(entries)))

\* a mutation of the filter: the threshold itself is not enough
MeetsThreshold_strict(count, totalCommits, threshold) ==
  count * threshold.den > threshold.num * totalCommits

\* count / totalCommits >= threshold
MeetsThreshold(count, totalCommits, threshold) ==
  count * threshold.den >= threshold.num * totalCommits

\* the value getFilesChangedTogether computes from the index and the history
FilesChangedTogether(index, fileHistory, normalizedPath, threshold) ==
  LET fileCommits == HashesInOrder(fileHistory, <<>>)
      totalCommits == Len(fileCommits)
      files == ObjectKeyOrder(CoFilesInOrder(index, fileCommits, normalizedPath, <<>>))
      entries == [i \in 1..Len(files) |->
                    [file |-> files[i],
                     count |-> CoCount(index, fileCommits, files[i]),
                     correlation |-> Ratio(CoCount(index, fileCommits, files[i]), totalCommits)]]
      kept == SelectSeq(entries, LAMBDA e : MeetsThreshold(e.count, totalCommits, threshold))
  IN IF totalCommits = 0 THEN <<>> ELSE SortByCount(kept, <<>>)

ModificationOf(commit) ==
  [hash |-> commit.hash, author |-> commit.author_name, date |-> commit.date,
   message |-> commit.message]

\* the value getRecentlyModifiedFiles computes from the index
RecentlyModifiedFiles(index, daysAgo) ==
  LET sinceMs == Now - daysAgo
      recent == SelectSeq(index.commits,
                          LAMBDA c : ~(DateParse(c.date) # NaN /\ DateParse(c.date) < sinceMs))
      touched == UNION {SeqToSet(MapGetOrEmpty(index.commitFilesMap, recent[i].hash)) :
                          i \in 1..Len(recent)}
  IN [f \in touched |->
        LET mine == SelectSeq(recent,
                              LAMBDA c : Includes(MapGetOrEmpty(index.commitFilesMap, c.hash), f))
        IN [i \in 1..Len(mine) |-> ModificationOf(mine[i])]]

\* ------------------------------------------------------------------------
\* GitAnalyzer: one instance, its callers and the version-control tool
\* ------------------------------------------------------------------------

\* calls made on the instance in one run
MaxCalls == 3

DefaultThreshold == Ratio(3, 10)

DefaultDaysAgo == 90

Request(op, path) == [op |-> op, path |-> path]

UnknownFile == <<"none", DOT, "js">>

OutsidePath == <<DOT, DOT, SLASH, "x", DOT, "js">>

\* the calls callers make: queries about a tracked file, about a file without
\* history and about a path that leaves the repository, with the default
\* threshold and period
Requests ==
  { Request("getFileHistory", FileA),
    Request("getFileHistory", UnknownFile),
    Request("getFileHistory", OutsidePath),
    Request("getFileOwnership", FileA),
    Request("getChangeFrequency", FileA),
    Request("getFilesChangedTogether", FileA),
    Request("getFilesChangedTogether", OutsidePath),
    Request("getRecentlyModifiedFiles", <<>>),
    Request("getAllTrackedFiles", <<>>),
    Request("checkIsRepo", <<>>) }

VARIABLES
  isRepo,            \* the root is a version-controlled repository
  repoCommits,       \* the history the repository holds
  isRepoChecked,     \* this._isRepoChecked
  repoIndexPromise,  \* this._repoIndexPromise: 0 for null, else the build stored
  builds,            \* the index builds started so far, in order
  commitFileCache,   \* this._commitFileCache
  fileHistoryCache,  \* this._fileHistoryCache
  calls,             \* the calls made on the instance: a bag of call records
  gitCalls,          \* invocations of the version-control tool so far
  diskFiles,            \* the regular files on disk
  pathResolutionConfig, \* this.pathResolutionConfig of the StaticAnalyzer
  analyses,             \* the FileAnalysis records of the analyzed files
  callGraph,            \* the call graph buildCallGraph returned
  callGraphBuilt,       \* buildCallGraph has run
  deadCode,             \* the last detectDeadCode call: its inputs and result
  logCommits,           \* the history a queried repository holds
  queryIndex,      \* the index built from the full log of that history
  query,                \* the last query made on an analyzer whose index is built
  answer,               \* what that query returned
  tree,                 \* the directory tree on disk that is walked
  walkPc,               \* analyzeDirectory: idle, walking, returned, failed
  walkStack,            \* the calls of walk in progress, innermost last
  rootDir,              \* path.resolve(dirPath)
  normalizedPatterns,   \* the ignore patterns after normalisation
  visitedDirs,          \* the set visitedDirs
  walkAnalyses,         \* analyses: the paths of the analyses pushed so far
  readdirs,             \* the real directories listed so far, in order
  examined,             \* the entries met so far and what shouldIgnore said
  pieces,               \* the pieces of program text a file is made of
  content,              \* the content of the file, character by character
  complexity,           \* what calculateComplexity returned, 0 before the call
  logText,              \* the text the full log of a repository returned
  parsedLog,            \* what _parseRepositoryLog made of it
  exportStatement,      \* the statement of a file the extractor visits
  exportNames,          \* Array.from(exports) once the statement was visited
  configDisk,           \* the configuration files on disk and what they hold
  configPc,             \* loadPathResolutionConfig: idle, chain (getConfigChain runs), done
  configStack,          \* the calls of getConfigChain in progress, innermost last
  configVisited,        \* the set visited
  configChain,          \* the chain getConfigChain returned to loadPathResolutionConfig
  loadedConfig          \* what loadPathResolutionConfig returned

gitVars ==
  <<isRepo, repoCommits, isRepoChecked, repoIndexPromise, builds, commitFileCache,
    fileHistoryCache, calls, gitCalls>>

graphVars ==
  <<diskFiles, pathResolutionConfig, analyses, callGraph, callGraphBuilt, deadCode>>

queryVars == <<logCommits, queryIndex, query, answer>>

walkVars ==
  <<tree, walkPc, walkStack, rootDir, normalizedPatterns, visitedDirs, walkAnalyses,
    readdirs, examined>>

complexityVars == <<pieces, content, complexity>>

logVars == <<logText, parsedLog>>

exportVars == <<exportStatement, exportNames>>

configVars == <<configDisk, configPc, configStack, configVisited, configChain, loadedConfig>>

\* what the steps of one analyzer leave alone
besidesGit == <<graphVars, queryVars, walkVars, complexityVars, logVars, exportVars, configVars>>
besidesGraph == <<gitVars, queryVars, walkVars, complexityVars, logVars, exportVars, configVars>>
besidesQuery == <<gitVars, graphVars, walkVars, complexityVars, logVars, exportVars, configVars>>
besidesWalk == <<gitVars, graphVars, queryVars, complexityVars, logVars, exportVars, configVars>>
besidesComplexity == <<gitVars, graphVars, queryVars, walkVars, logVars, exportVars, configVars>>
besidesLog == <<gitVars, graphVars, queryVars, walkVars, complexityVars, exportVars, configVars>>
besidesExport == <<gitVars, graphVars, queryVars, walkVars, complexityVars, logVars, configVars>>
besidesConfig == <<gitVars, graphVars, queryVars, walkVars, complexityVars, logVars, exportVars>>

\* bags of call records: callers are told apart by what they asked and how
\* far they got only
EmptyBag == [x \in {} |-> 0]

BagAdd(bag, e) ==
  [x \in (DOMAIN bag) \cup {e} |-> IF x = e THEN (IF e \in DOMAIN bag THEN bag[e] + 1 ELSE 1)
                                   ELSE bag[x]]

BagRemove(bag, e) ==
  IF bag[e] > 1 THEN [bag EXCEPT ![e] = @ - 1]
  ELSE [x \in (DOMAIN bag) \ {e} |-> bag[x]]

RECURSIVE SumOver(_, _)
SumOver(bag, keys) ==
  IF keys = {} THEN 0
  ELSE LET k == CHOOSE x \in keys : TRUE
       IN bag[k] + SumOver(bag, keys \ {k})

BagSize(bag) == SumOver(bag, DOMAIN bag)

NoResult == <<>>

NotARepoError == <<"Not a git repository">>

\* pc: check (waits for the tool's repository check), index (waits for a
\* pending build), log (waits for the per-file log), lsfiles (waits for the
\* file listing), done
NewCall(req) ==
  [op |-> req.op, path |-> req.path, threshold |-> DefaultThreshold,
   daysAgo |-> DefaultDaysAgo, pc |-> "start", build |-> 0, inner |-> FALSE,
   logOutcome |-> "none", late |-> FALSE, fileLogs |-> 0, raised |-> FALSE, result |-> NoResult]

NoGitCalls == [checkIsRepo |-> 0, checkIsRepoDone |-> 0, fullLog |-> 0]

GitInit ==
  /\ isRepo \in BOOLEAN
  /\ repoCommits = IF isRepo THEN ThreeCommits ELSE <<>>
  /\ isRepoChecked = FALSE
  /\ repoIndexPromise = 0
  /\ builds = <<>>
  /\ commitFileCache = EmptyMap
  /\ fileHistoryCache = EmptyMap
  /\ calls = EmptyBag
  /\ gitCalls = NoGitCalls

\* the state of an instance nobody uses
GitIdle ==
  /\ isRepo = FALSE
  /\ repoCommits = <<>>
  /\ isRepoChecked = FALSE
  /\ repoIndexPromise = 0
  /\ builds = <<>>
  /\ commitFileCache = EmptyMap
  /\ fileHistoryCache = EmptyMap
  /\ calls = EmptyBag
  /\ gitCalls = NoGitCalls

\* The fields of the instance as one record, with the call that is running.
\* A query runs from one wait for the tool (or for a pending build) to the
\* next: an await of a value that is already there is no point where the
\* tool can answer.
Machine(call) ==
  [isRepoChecked |-> isRepoChecked, repoIndexPromise |-> repoIndexPromise,
   builds |-> builds, commitFileCache |-> commitFileCache,
   fileHistoryCache |-> fileHistoryCache, gitCalls |-> gitCalls, call |-> call]

BecomesShared(m) ==
  /\ isRepoChecked' = m.isRepoChecked
  /\ repoIndexPromise' = m.repoIndexPromise
  /\ builds' = m.builds
  /\ commitFileCache' = m.commitFileCache
  /\ fileHistoryCache' = m.fileHistoryCache
  /\ gitCalls' = m.gitCalls
  /\ UNCHANGED <<isRepo, repoCommits>>
  /\ UNCHANGED besidesGit

\* the running call stops (at a wait or at its end) and the fields are written
Becomes(others, m) ==
  /\ BecomesShared(m)
  /\ calls' = BagAdd(others, m.call)

IndexBuilt == \E b \in 1..Len(builds) : builds[b].pc = "ok"

\* a mutation of the memo test: only a finished index counts as stored
IndexMemoized_settledOnly(m) ==
  m.repoIndexPromise # 0 /\ m.builds[m.repoIndexPromise].pc = "ok"

\* if (this._repoIndexPromise) return this._repoIndexPromise
IndexMemoized(m) == m.repoIndexPromise # 0

\* mutations of the handler: the slot is cleared whenever the build settles;
\* the slot is never cleared
SlotOnSettle_cleared(m, ok) == 0

SlotOnSettle_kept(m, ok) == m.repoIndexPromise

\* the .catch handler of the stored promise: a failed build clears the slot,
\* a successful one stays stored
SlotOnSettle(m, ok) == IF ok THEN m.repoIndexPromise ELSE 0

\* what a query returns from its catch block
DefaultResult(op) ==
  CASE op = "getFileHistory" -> <<>>
    [] op = "getFileOwnership" -> [primary |-> Unknown, contributors |-> <<>>, totalCommits |-> 0]
    [] op = "getChangeFrequency" -> Zero
    [] op = "getFilesChangedTogether" -> <<>>
    [] op = "getRecentlyModifiedFiles" -> EmptyMap
    [] op = "getAllTrackedFiles" -> <<>>
    [] OTHER -> NoResult

\* what the query of the call returns once getFileHistory returned history
ResultOf(m, history) ==
  CASE m.call.op = "getFileHistory" -> history
    [] m.call.op = "getFileOwnership" -> Ownership(history)
    [] m.call.op = "getChangeFrequency" -> ChangeFrequency(history)
    [] m.call.op = "getFilesChangedTogether" ->
         FilesChangedTogether(m.builds[m.call.build].index, history,
                              _normalizeFilePath(m.call.path), m.call.threshold)

Return(m, value) == [m EXCEPT !.call.pc = "done", !.call.result = value]

Throw(m, error) ==
  [m EXCEPT !.call.pc = "done", !.call.result = error, !.call.raised = TRUE]

\* getFileHistory returns history to the query of the call
ReturnHistory(m, history) == Return(m, ResultOf(m, history))

\* a build: check (waits for the tool's repository check), raw (waits for the
\* full log), ok, failed; late when it starts although an index was built
NewBuild(m, pc) ==
  [pc |-> pc, index |-> EmptyIndex,
   late |-> \E b \in 1..Len(m.builds) : m.builds[b].pc = "ok"]

RECURSIVE CallCheckIsRepo(_)
RECURSIVE AfterCheckIsRepo(_)
RECURSIVE CallGetRepositoryIndex(_)
RECURSIVE AfterGetRepositoryIndex(_)

\* the call invokes checkIsRepo: it returns at once when the flag is set, else
\* the tool is asked and the call waits for its answer
CallCheckIsRepo(m) ==
  IF m.isRepoChecked THEN AfterCheckIsRepo(m)
  ELSE [m EXCEPT !.call.pc = "check", !.gitCalls.checkIsRepo = @ + 1]

\* the call continues after checkIsRepo returned without error
AfterCheckIsRepo(m) ==
  LET normalizedPath == _normalizeFilePath(m.call.path)
  IN IF m.call.op = "checkIsRepo" THEN Return(m, NoResult)
     ELSE IF m.call.op = "getAllTrackedFiles" THEN [m EXCEPT !.call.pc = "lsfiles"]
     ELSE IF normalizedPath = <<>> THEN ReturnHistory(m, <<>>)
     ELSE IF normalizedPath \in DOMAIN m.fileHistoryCache
     THEN ReturnHistory(m, m.fileHistoryCache[normalizedPath])
     ELSE CallGetRepositoryIndex(m)

\* the call invokes _getRepositoryIndex: it joins the stored build, or starts
\* one, stores it, and the build runs up to its first wait for the tool
CallGetRepositoryIndex(m) ==
  IF IndexMemoized(m)
  THEN LET joined == [m EXCEPT !.call.pc = "index", !.call.build = m.repoIndexPromise]
       IN IF m.builds[m.repoIndexPromise].pc \in {"ok", "failed"}
          THEN AfterGetRepositoryIndex(joined)
          ELSE joined
  ELSE LET b == Len(m.builds) + 1
       IN IF m.isRepoChecked
          THEN [m EXCEPT !.builds = Append(@, NewBuild(m, "raw")),
                         !.repoIndexPromise = b,
                         !.gitCalls.fullLog = @ + 1,
                         !.call.pc = "index", !.call.build = b]
          ELSE [m EXCEPT !.builds = Append(@, NewBuild(m, "check")),
                         !.repoIndexPromise = b,
                         !.gitCalls.checkIsRepo = @ + 1,
                         !.call.pc = "index", !.call.build = b]

\* the call continues after the build it awaited has settled
AfterGetRepositoryIndex(m) ==
  LET build == m.builds[m.call.build]
      normalizedPath == _normalizeFilePath(m.call.path)
      history == MapGetOrEmpty(build.index.fileCommitsMap, normalizedPath)
  IN IF m.call.op = "getRecentlyModifiedFiles"
     THEN Return(m, IF build.pc = "ok"
                    THEN RecentlyModifiedFiles(build.index, m.call.daysAgo)
                    ELSE DefaultResult(m.call.op))
     ELSE IF m.call.op = "getFilesChangedTogether" /\ ~m.call.inner
     THEN IF build.pc = "ok"
          THEN CallCheckIsRepo([m EXCEPT !.call.inner = TRUE])
          ELSE Return(m, DefaultResult(m.call.op))
     ELSE IF build.pc = "ok"
     THEN ReturnHistory([m EXCEPT !.fileHistoryCache = MapSet(@, normalizedPath, history)],
                        history)
     ELSE [m EXCEPT !.call.pc = "log", !.call.fileLogs = @ + 1]

\* a caller invokes one of the queries
StartCall(req) ==
  /\ BagSize(calls) < MaxCalls
  /\ LET m == Machine([NewCall(req) EXCEPT !.late = IndexBuilt])
     IN Becomes(calls,
                IF req.op = "getFilesChangedTogether"
                THEN IF _normalizeFilePath(req.path) = <<>>
                     THEN Return(m, <<>>)
                     ELSE CallGetRepositoryIndex(m)
                ELSE IF req.op = "getRecentlyModifiedFiles"
                THEN CallGetRepositoryIndex(m)
                ELSE CallCheckIsRepo(m))

\* the tool answers the repository check a query is waiting for
CheckIsRepoDone(call) ==
  /\ call.pc = "check"
  /\ LET m == [Machine(call) EXCEPT !.gitCalls.checkIsRepoDone = @ + 1]
     IN Becomes(BagRemove(calls, call),
                IF isRepo
                THEN AfterCheckIsRepo([m EXCEPT !.isRepoChecked = TRUE])
                ELSE IF call.op = "checkIsRepo"
                THEN Throw(m, NotARepoError)
                ELSE IF call.op = "getAllTrackedFiles"
                THEN Return(m, DefaultResult(call.op))
                ELSE ReturnHistory(m, <<>>))

\* the tool answers the repository check an index build is waiting for; the
\* build goes on to invoke the full log (git log --name-only), or fails
BuildCheckDone(b) ==
  /\ b \in 1..Len(builds)
  /\ builds[b].pc = "check"
  /\ UNCHANGED calls
  /\ LET m == [Machine(NoResult) EXCEPT !.gitCalls.checkIsRepoDone = @ + 1]
     IN BecomesShared(IF isRepo
                      THEN [m EXCEPT !.isRepoChecked = TRUE,
                                     !.builds[b].pc = "raw",
                                     !.gitCalls.fullLog = @ + 1]
                      ELSE [m EXCEPT !.builds[b].pc = "failed",
                                     !.repoIndexPromise = SlotOnSettle(m, FALSE)])

RECURSIVE MapSetAll(_, _, _)
MapSetAll(m, from, keys) ==
  IF keys = {} THEN m
  ELSE LET k == CHOOSE x \in keys : TRUE
       IN MapSetAll(MapSet(m, k, from[k]), from, keys \ {k})

\* the full log returns (ok) or fails; the index is parsed and both caches
\* are filled from it, or the stored promise rejects
BuildFullLogDone(b, ok) ==
  /\ b \in 1..Len(builds)
  /\ builds[b].pc = "raw"
  /\ UNCHANGED calls
  /\ LET repositoryIndex == _parseRepositoryLog(FormatLog(repoCommits))
         m == Machine(NoResult)
     IN BecomesShared(IF ok
                      THEN [m EXCEPT !.builds[b].pc = "ok",
                                     !.builds[b].index = repositoryIndex,
                                     !.repoIndexPromise = SlotOnSettle(m, TRUE),
                                     !.commitFileCache =
                                        MapSetAll(@, repositoryIndex.commitFilesMap,
                                                  DOMAIN repositoryIndex.commitFilesMap),
                                     !.fileHistoryCache =
                                        MapSetAll(@, repositoryIndex.fileCommitsMap,
                                                  DOMAIN repositoryIndex.fileCommitsMap)]
                      ELSE [m EXCEPT !.builds[b].pc = "failed",
                                     !.repoIndexPromise = SlotOnSettle(m, FALSE)])

\* a query continues after the pending build it awaited has settled
IndexSettled(call) ==
  /\ call.pc = "index"
  /\ builds[call.build].pc \in {"ok", "failed"}
  /\ Becomes(BagRemove(calls, call), AfterGetRepositoryIndex(Machine(call)))

\* a mutation of the fallback: the per-file log is not used
FileLogResult_empty(ok, log) == <<>>

\* what getFileHistory returns after the fallback: log.all of the per-file
\* log, or [] from the outer catch when that log fails too
FileLogResult(ok, log) == IF ok THEN log ELSE <<>>

\* the per-file log of the fallback returns (ok) or fails
FileLogDone(call, ok) ==
  /\ call.pc = "log"
  /\ LET m == Machine([call EXCEPT !.logOutcome = IF ok THEN "ok" ELSE "failed"])
         normalizedPath == _normalizeFilePath(call.path)
         history == GitLogFile(repoCommits, normalizedPath)
     IN Becomes(BagRemove(calls, call),
                IF ok
                THEN ReturnHistory([m EXCEPT !.fileHistoryCache =
                                                MapSet(@, normalizedPath, history)],
                                   FileLogResult(ok, history))
                ELSE ReturnHistory(m, FileLogResult(ok, history)))

\* git ls-files: one line per tracked file
LsFilesOutput(commits) ==
  LET tracked == TrackedFiles(commits)
  IN FormatFiles((IF FileA \in tracked THEN <<FileA>> ELSE <<>>)
                 \o (IF FileB \in tracked THEN <<FileB>> ELSE <<>>))

\* files.split('\n').filter(f => f.trim())
NonBlankLines(text) == SelectSeq(SplitOn(text, NL), LAMBDA f : Trim(f) # <<>>)

\* the tracked-file listing returns (ok) or fails
LsFilesDone(call, ok) ==
  /\ call.pc = "lsfiles"
  /\ Becomes(BagRemove(calls, call),
             Return(Machine(call), IF ok THEN NonBlankLines(LsFilesOutput(repoCommits))
                                   ELSE DefaultResult(call.op)))

GitNext ==
  \/ \E req \in Requests : StartCall(req)
  \/ \E call \in DOMAIN calls : CheckIsRepoDone(call)
  \/ \E b \in 1..MaxCalls : BuildCheckDone(b)
  \/ \E b \in 1..MaxCalls, ok \in BOOLEAN : BuildFullLogDone(b, ok)
  \/ \E call \in DOMAIN calls : IndexSettled(call)
  \/ \E call \in DOMAIN calls, ok \in BOOLEAN : FileLogDone(call, ok)
  \/ \E call \in DOMAIN calls, ok \in BOOLEAN : LsFilesDone(call, ok)

\* ------------------------------------------------------------------------
\* StaticAnalyzer: import resolution, call graph, dead code
\* ------------------------------------------------------------------------

\* null / undefined where the code expects a path
NullPath == <<>>

\* String.prototype.toLowerCase() on the tokens that have capitals
LowerToken(tok) ==
  CASE tok = "App" -> "app"
    [] tok = "Main" -> "main"
    [] tok = "Index" -> "index"
    [] tok = "Tests" -> "tests"
    [] tok = "Test" -> "test"
    [] tok = "Spec" -> "spec"
    [] tok = "Build" -> "build"
    [] OTHER -> tok

ToLowerCase(s) == [i \in 1..Len(s) |-> LowerToken(s[i])]

\* the elements of s in order of first occurrence (insertion order of a Set)
RECURSIVE InsertionOrder(_, _)
InsertionOrder(s, acc) ==
  IF s = <<>> THEN acc
  ELSE InsertionOrder(Tail(s), IF Includes(acc, Head(s)) THEN acc ELSE Append(acc, Head(s)))

RECURSIVE Flatten(_)
Flatten(lists) == IF lists = <<>> THEN <<>> ELSE Head(lists) \o Flatten(Tail(lists))

ImportExtensions ==
  << <<DOT, "js">>, <<DOT, "jsx">>, <<DOT, "mjs">>, <<DOT, "cjs">>, <<DOT, "ts">>,
     <<DOT, "tsx">>, <<DOT, "mts">>, <<DOT, "cts">>, <<DOT, "py">>, <<DOT, "java">>,
     <<DOT, "go">> >>

\* paths: an entry per pattern of compilerOptions.paths, in key order
parsePathAliases(paths, baseUrl) ==
  LET effectiveBaseUrl == IF baseUrl = NullPath THEN RepoPath ELSE baseUrl
      Target(target) ==
        LET targetHasWildcard == EndsWith(target, <<SLASH, STAR>>)
            targetPrefix == IF targetHasWildcard THEN SubSeq(target, 1, Len(target) - 2)
                            ELSE target
        IN [hasWildcard |-> targetHasWildcard,
            prefix |-> PathResolve(effectiveBaseUrl, targetPrefix)]
      Alias(entry) ==
        LET hasWildcard == EndsWith(entry.pattern, <<SLASH, STAR>>)
            kept == SelectSeq(entry.targets, LAMBDA target : target # <<>>)
        IN [pattern |-> entry.pattern,
            prefix |-> IF hasWildcard THEN SubSeq(entry.pattern, 1, Len(entry.pattern) - 2)
                       ELSE entry.pattern,
            hasWildcard |-> hasWildcard,
            targets |-> [i \in 1..Len(kept) |-> Target(kept[i])]]
      aliases == [i \in 1..Len(paths) |-> Alias(paths[i])]
  IN SelectSeq(aliases, LAMBDA alias : alias.targets # <<>>)

\* the candidates one alias contributes for importPath
AliasCandidates(alias, importPath) ==
  IF alias.hasWildcard
  THEN IF ~StartsWith(importPath, alias.prefix) THEN <<>>
       ELSE LET suffix == SubSeq(importPath, Len(alias.prefix) + 1, Len(importPath))
            IN [i \in 1..Len(alias.targets) |->
                  IF alias.targets[i].hasWildcard
                  THEN alias.targets[i].prefix \o suffix
                  ELSE alias.targets[i].prefix]
  ELSE IF importPath = alias.pattern
       THEN [i \in 1..Len(alias.targets) |-> alias.targets[i].prefix]
       ELSE <<>>

resolveAliasCandidates(importPath) ==
  LET pathAliases == pathResolutionConfig.pathAliases
  IN Flatten([i \in 1..Len(pathAliases) |-> AliasCandidates(pathAliases[i], importPath)])

\* a mutation of getImportCandidates: the base root is tried after the alias
\* targets
getImportCandidates_thenBase(fromFile, importPath) ==
  IF importPath = <<>> THEN <<>>
  ELSE IF StartsWith(importPath, <<DOT>>)
  THEN <<PathResolve(PathDirname(fromFile), importPath)>>
  ELSE LET looksLikeProjectPath ==
             \/ Includes(importPath, SLASH)
             \/ StartsWith(importPath, <<AT>>)
             \/ StartsWith(importPath, <<TILDE>>)
             \/ PathExtname(importPath) # <<>>
       IN resolveAliasCandidates(importPath)
          \o (IF pathResolutionConfig.baseUrl # NullPath /\ looksLikeProjectPath
              THEN <<PathResolve(pathResolutionConfig.baseUrl, importPath)>>
              ELSE <<>>)

getImportCandidates(fromFile, importPath) ==
  IF importPath = <<>> THEN <<>>
  ELSE IF StartsWith(importPath, <<DOT>>)
  THEN <<PathResolve(PathDirname(fromFile), importPath)>>
  ELSE LET aliasCandidates == resolveAliasCandidates(importPath)
           looksLikeProjectPath ==
             \/ Includes(importPath, SLASH)
             \/ StartsWith(importPath, <<AT>>)
             \/ StartsWith(importPath, <<TILDE>>)
             \/ PathExtname(importPath) # <<>>
       IN IF aliasCandidates # <<>> THEN aliasCandidates
          ELSE IF pathResolutionConfig.baseUrl # NullPath /\ looksLikeProjectPath
          THEN <<PathResolve(pathResolutionConfig.baseUrl, importPath)>>
          ELSE <<>>

\* a mutation of expandPathCandidates: the index files come before the names
\* with an extension added
expandPathCandidates_indexFirst(basePath) ==
  LET normalizedBase == PathNormalize(basePath)
      withExtension ==
        IF PathExtname(normalizedBase) = <<>>
        THEN [i \in 1..Len(ImportExtensions) |-> normalizedBase \o ImportExtensions[i]]
        ELSE <<>>
      indexFiles ==
        [i \in 1..Len(ImportExtensions) |->
           PathJoin(normalizedBase, <<"index">> \o ImportExtensions[i])]
  IN InsertionOrder(<<normalizedBase>> \o indexFiles \o withExtension, <<>>)

expandPathCandidates(basePath) ==
  LET normalizedBase == PathNormalize(basePath)
      withExtension ==
        IF PathExtname(normalizedBase) = <<>>
        THEN [i \in 1..Len(ImportExtensions) |-> normalizedBase \o ImportExtensions[i]]
        ELSE <<>>
      indexFiles ==
        [i \in 1..Len(ImportExtensions) |->
           PathJoin(normalizedBase, <<"index">> \o ImportExtensions[i])]
  IN InsertionOrder(<<normalizedBase>> \o withExtension \o indexFiles, <<>>)

\* the directories above file f
DirectoriesOf(f) == {SubSeq(f, 1, i - 1) : i \in {j \in 2..Len(f) : f[j] = SLASH}}

\* the directories on disk
Directories == UNION {DirectoriesOf(f) : f \in diskFiles}

\* a mutation of fileExists: whatever statSync finds is accepted
fileExists_anyEntry(filePath) == filePath \in diskFiles \cup Directories

\* statSync(filePath).isFile(), false when statSync throws
fileExists(filePath) == filePath \in diskFiles

RECURSIVE FirstExisting(_)
FirstExisting(candidates) ==
  IF candidates = <<>> THEN NullPath
  ELSE IF fileExists(Head(candidates)) THEN Head(candidates)
  ELSE FirstExisting(Tail(candidates))

resolveExistingPath(basePath) ==
  IF basePath = <<>> THEN NullPath ELSE FirstExisting(expandPathCandidates(basePath))

RECURSIVE FirstResolved(_)
FirstResolved(candidates) ==
  IF candidates = <<>> THEN NullPath
  ELSE LET resolved == resolveExistingPath(Head(candidates))
       IN IF resolved # NullPath THEN resolved ELSE FirstResolved(Tail(candidates))

resolveImportPath(fromFile, importPath) ==
  FirstResolved(getImportCandidates(fromFile, importPath))

PathsOf(list) == {list[i].path : i \in 1..Len(list)}

\* a mutation of the edge test: whatever resolves is linked
IsAnalyzed_anyResolved(fileMap, resolvedPath) == resolvedPath # NullPath

\* resolvedPath && fileMap.has(resolvedPath)
IsAnalyzed(fileMap, resolvedPath) == resolvedPath # NullPath /\ resolvedPath \in fileMap

\* a mutation of the two pushes: calledBy keeps one entry per importer
AddEdge_calledByOnce(graph, from, to) ==
  [graph EXCEPT ![from].calls = Append(@, to),
                ![to].calledBy = IF Includes(@, from) THEN @ ELSE Append(@, from)]

\* calls.push(resolvedPath); calledBy.push(analysis.path)
AddEdge(graph, from, to) ==
  [graph EXCEPT ![from].calls = Append(@, to), ![to].calledBy = Append(@, from)]

\* analysis.imports.forEach of one analysis
RECURSIVE AddImports(_, _, _, _)
AddImports(graph, fileMap, from, imports) ==
  IF imports = <<>> THEN graph
  ELSE LET resolvedPath == resolveImportPath(from, Head(imports))
       IN AddImports(IF IsAnalyzed(fileMap, resolvedPath)
                     THEN AddEdge(graph, from, resolvedPath)
                     ELSE graph,
                     fileMap, from, Tail(imports))

\* the second analyses.forEach
RECURSIVE AddAnalyses(_, _, _)
AddAnalyses(graph, fileMap, list) ==
  IF list = <<>> THEN graph
  ELSE AddAnalyses(AddImports(graph, fileMap, Head(list).path, Head(list).imports),
                   fileMap, Tail(list))

EmptyNode == [calls |-> <<>>, calledBy |-> <<>>]

\* a graph without nodes: {}
EmptyGraph == [p \in {} |-> EmptyNode]

\* every file of list a node without edges
IsolatedGraph(list) == [p \in PathsOf(list) |-> EmptyNode]

buildCallGraph(list) == AddAnalyses(IsolatedGraph(list), PathsOf(list), list)

\* a mutation of isTestFile: only the directory rule
isTestFile_directoryOnly(filePath) ==
  LET segments == SplitOn(ToForwardSlashes(ToLowerCase(filePath)), SLASH)
  IN \E k \in 1..Len(segments) :
       segments[k] \in {<<"__tests__">>, <<"tests">>, <<"test">>}

\* the path has a directory test, tests or __tests__, or its name ends in
\* .test.<ext> or .spec.<ext>
isTestFile(filePath) ==
  LET normalizedPath == ToLowerCase(filePath)
      segments == SplitOn(ToForwardSlashes(normalizedPath), SLASH)
      n == Len(normalizedPath)
      i == LastIndex(normalizedPath, DOT)
  IN \/ \E k \in 1..Len(segments) :
          segments[k] \in {<<"__tests__">>, <<"tests">>, <<"test">>}
     \/ /\ i >= 3
        /\ i < n
        /\ normalizedPath[i - 2] = DOT
        /\ normalizedPath[i - 1] \in {"test", "spec"}
        /\ \A j \in (i + 1)..n : normalizedPath[j] \notin {SLASH, BSLASH}

\* a mutation of the base name: the file name with its extension
BaseName_withExtension(filePath) == LastSegment(filePath)

\* path.basename(analysis.path, path.extname(analysis.path))
BaseName(filePath) == PathBasename(filePath, PathExtname(filePath))

isEntryPoint(baseName) == baseName \in {<<"index">>, <<"main">>, <<"app">>}

DeadFile(analysis) ==
  [path |-> analysis.path, reason |-> "No imports found from other files",
   exports |-> analysis.exports, confidence |-> "medium"]

RECURSIVE detectDeadCode(_, _, _)
detectDeadCode(list, graph, includeTests) ==
  IF list = <<>> THEN <<>>
  ELSE LET analysis == Head(list)
           rest == detectDeadCode(Tail(list), graph, includeTests)
       IN IF ~includeTests /\ isTestFile(analysis.path) THEN rest
          ELSE IF analysis.path \notin DOMAIN graph THEN rest
          ELSE LET isReferenced == Len(graph[analysis.path].calledBy) > 0
                   hasExports == Len(analysis.exports) > 0
               IN IF ~isReferenced /\ ~isEntryPoint(BaseName(analysis.path)) /\ hasExports
                  THEN <<DeadFile(analysis)>> \o rest
                  ELSE rest

\* ------------------------------------------------------------------------
\* StaticAnalyzer: the projects analysed and the operations on them
\* ------------------------------------------------------------------------

MaxFiles == 3

RepoFile(relative) == RepoPath \o <<SLASH>> \o relative

JsA == RepoFile(<<"a", DOT, "js">>)
JsB == RepoFile(<<"b", DOT, "js">>)
LibIndex == RepoFile(<<"lib", SLASH, "index", DOT, "js">>)
MainUtil == RepoFile(<<"main", SLASH, "util", DOT, "js">>)
MainJs == RepoFile(<<"main", DOT, "js">>)
AppCapital == RepoFile(<<"App", DOT, "js">>)
AppTs == RepoFile(<<"app", DOT, "ts">>)
TestsT == RepoFile(<<"tests", SLASH, "t", DOT, "js">>)
LibSpec == RepoFile(<<"lib", SLASH, "b", DOT, "spec", DOT, "ts">>)
Vendor == RepoFile(<<"vendor", DOT, "js">>)
BIndex == RepoFile(<<"b", SLASH, "index", DOT, "js">>)

FileAnalysis(p, imports, exports) == [path |-> p, imports |-> imports, exports |-> exports]

\* import specifiers as the extractor reports them
ImportB == <<DOT, SLASH, "b">>
ImportBJs == <<DOT, SLASH, "b", DOT, "js">>
ImportA == <<DOT, SLASH, "a">>
ImportLib == <<DOT, SLASH, "lib">>
ImportVendor == <<DOT, SLASH, "vendor">>
ImportMissing == <<DOT, SLASH, "missing">>
ImportUpA == <<DOT, DOT, SLASH, "a">>
ImportUpB == <<DOT, DOT, SLASH, "b">>
ImportFs == <<"fs">>
ImportAlias == <<AT, SLASH, "index">>

\* the analyses a project is made of: at most one per file
FileAnalyses ==
  { FileAnalysis(JsA, <<ImportB, ImportBJs, ImportFs>>, <<"run">>),
    FileAnalysis(JsA, <<ImportLib, ImportVendor, ImportMissing, <<>>>>, <<>>),
    FileAnalysis(JsB, <<>>, <<"helper">>),
    FileAnalysis(JsB, <<ImportA, ImportB>>, <<"helper">>),
    FileAnalysis(LibIndex, <<ImportUpB>>, <<"api">>),
    FileAnalysis(MainUtil, <<ImportUpA>>, <<"util">>),
    FileAnalysis(MainJs, <<ImportAlias, ImportBJs>>, <<"main">>),
    FileAnalysis(AppCapital, <<>>, <<"App">>),
    FileAnalysis(AppTs, <<ImportA>>, <<"start">>),
    FileAnalysis(TestsT, <<ImportUpA>>, <<"t">>),
    FileAnalysis(LibSpec, <<ImportUpA>>, <<"cases">>) }

Projects ==
  {list \in UNION {[1..n -> FileAnalyses] : n \in 0..MaxFiles} :
     \A i, j \in 1..Len(list) : list[i].path = list[j].path => i = j}

DiskAll ==
  {JsA, JsB, LibIndex, MainUtil, MainJs, AppCapital, AppTs, TestsT, LibSpec, Vendor, BIndex}

\* the disks: every file in place, or b.js removed after it was analysed
Disks == {DiskAll, DiskAll \ {JsB}}

NoConfig == [baseUrl |-> NullPath, pathAliases |-> <<>>]

\* a tsconfig.json with baseUrl "." and paths {"@/*": ["lib/*"]}
AliasConfig ==
  [baseUrl |-> RepoPath,
   pathAliases |-> parsePathAliases(<<[pattern |-> <<AT, SLASH, STAR>>,
                                       targets |-> << <<"lib", SLASH, STAR>> >>]>>,
                                    RepoPath)]

Configs == {NoConfig, AliasConfig}

NoDeadCode == [ran |-> FALSE, includeTests |-> FALSE, callGraph |-> EmptyGraph, deadFiles |-> <<>>]

GraphInit ==
  /\ diskFiles \in Disks
  /\ pathResolutionConfig \in Configs
  /\ analyses \in Projects
  /\ callGraph = EmptyGraph
  /\ callGraphBuilt = FALSE
  /\ deadCode = NoDeadCode

\* the state of a StaticAnalyzer nobody uses
GraphIdle ==
  /\ diskFiles = {}
  /\ pathResolutionConfig = NoConfig
  /\ analyses = <<>>
  /\ callGraph = EmptyGraph
  /\ callGraphBuilt = FALSE
  /\ deadCode = NoDeadCode

\* callGraph = analyzer.buildCallGraph(analyses)
BuildCallGraph ==
  /\ ~callGraphBuilt
  /\ callGraph' = buildCallGraph(analyses)
  /\ callGraphBuilt' = TRUE
  /\ UNCHANGED <<diskFiles, pathResolutionConfig, analyses, deadCode>>
  /\ UNCHANGED besidesGraph

\* the call graphs a caller may hand to detectDeadCode: the one that was
\* built (none before that), or one in which nothing is referenced
GraphsToCheck == {callGraph, IsolatedGraph(analyses)}

\* analyzer.detectDeadCode(analyses, graph, { includeTests })
DetectDeadCode(graph, includeTests) ==
  /\ ~deadCode.ran
  /\ deadCode' = [ran |-> TRUE, includeTests |-> includeTests, callGraph |-> graph,
                  deadFiles |-> detectDeadCode(analyses, graph, includeTests)]
  /\ UNCHANGED <<diskFiles, pathResolutionConfig, analyses, callGraph, callGraphBuilt>>
  /\ UNCHANGED besidesGraph

GraphNext ==
  \/ BuildCallGraph
  \/ \E graph \in GraphsToCheck, includeTests \in BOOLEAN : DetectDeadCode(graph, includeTests)

\* ------------------------------------------------------------------------
\* GitAnalyzer: the queries as functions of the history (an analyzer whose
\* index was built from the full log of the repository)

MaxCommits == 3

FileC == <<"c", DOT, "md">>

HashAt(i) == <<"abc0001", "abc0002", "abc0003", "abc0004", "abc0005">>[i]

\* author dates that follow the order of the log
DateAt(i) == IF i = 1 THEN "2024-01-05" ELSE IF i = 2 THEN "2024-01-03" ELSE "2024-01-01"

QueryAuthors == {"ann", "bob", "7"}

\* author dates need not follow the order of the log, nor be dates
QueryDates == {"2024-01-01", "2024-01-05", "not-a-date"}

QueryFileLists ==
  {<<FileA>>, <<FileA, FileB>>, <<FileC, FileA, FileB>>, <<FileA, FileC>>, <<FileB>>}

\* histories of one file with any authors and dates, and histories of several
\* files; most recent commit first
QueryHistories ==
  UNION { { [i \in 1..n |-> GitCommit(HashAt(i), f[i][1], f[i][2], "msg", <<FileA>>)] :
              f \in [1..n -> QueryAuthors \X QueryDates] } \cup
          { [i \in 1..n |-> GitCommit(HashAt(i), "ann", DateAt(i), "msg", f[i])] :
              f \in [1..n -> QueryFileLists] } : n \in 0..MaxCommits }

\* the same file as the caller may name it, and other files
QueryPaths == {FileA, RepoFile(FileA), <<DOT, SLASH>> \o FileA, FileB, UnknownFile}

QueryThresholds == {Ratio(3, 10), Ratio(1, 2), Ratio(6, 10)}

NoQuery == [op |-> "none", path |-> <<>>, threshold |-> Zero]

QueryInit ==
  /\ logCommits \in QueryHistories
  /\ queryIndex = _parseRepositoryLog(FormatLog(logCommits))
  /\ query = NoQuery
  /\ answer = NoResult

QueryIdle ==
  /\ logCommits = <<>>
  /\ queryIndex = EmptyIndex
  /\ query = NoQuery
  /\ answer = NoResult

\* getFileHistory when the index is built
getFileHistory(filePath) ==
  LET normalizedPath == _normalizeFilePath(filePath)
  IN IF normalizedPath = <<>> THEN <<>>
     ELSE MapGetOrEmpty(queryIndex.fileCommitsMap, normalizedPath)

getFileOwnership(filePath) == Ownership(getFileHistory(filePath))

getChangeFrequency(filePath) == ChangeFrequency(getFileHistory(filePath))

getFilesChangedTogether(filePath, threshold) ==
  LET normalizedPath == _normalizeFilePath(filePath)
  IN IF normalizedPath = <<>> THEN <<>>
     ELSE FilesChangedTogether(queryIndex, getFileHistory(normalizedPath),
                               normalizedPath, threshold)

Answers(op, filePath, threshold, value) ==
  /\ query' = [op |-> op, path |-> filePath, threshold |-> threshold]
  /\ answer' = value
  /\ UNCHANGED <<logCommits, queryIndex, besidesQuery>>

QueryFileHistory ==
  \E filePath \in QueryPaths :
    Answers("getFileHistory", filePath, Zero, getFileHistory(filePath))

QueryFileOwnership ==
  \E filePath \in QueryPaths :
    Answers("getFileOwnership", filePath, Zero, getFileOwnership(filePath))

QueryChangeFrequency ==
  \E filePath \in QueryPaths :
    Answers("getChangeFrequency", filePath, Zero, getChangeFrequency(filePath))

QueryFilesChangedTogether ==
  \E filePath \in QueryPaths, threshold \in QueryThresholds :
    Answers("getFilesChangedTogether", filePath, threshold,
            getFilesChangedTogether(filePath, threshold))

QueryNext ==
  \/ QueryFileHistory
  \/ QueryFileOwnership
  \/ QueryChangeFrequency
  \/ QueryFilesChangedTogether

\* ------------------------------------------------------------------------
\* StaticAnalyzer.analyzeDirectory: the walk of a directory tree

LanguageExtensions ==
  { <<DOT, "js">>, <<DOT, "jsx">>, <<DOT, "mjs">>, <<DOT, "ts">>, <<DOT, "tsx">>,
    <<DOT, "py">>, <<DOT, "java">>, <<DOT, "go">> }

\* detectLanguage(extension) finds a language
detectLanguage(extension) == extension \in LanguageExtensions

\* a directory entry: a file, a dir, or a link with the path it points to
DirEntry(name, kind, target) == [name |-> name, kind |-> kind, target |-> target]

SrcDir == RepoFile(<<"src">>)
SrcBuildDir == RepoFile(<<"src", SLASH, "build">>)
BuildCapDir == RepoFile(<<"Build">>)
UtilsDir == RepoFile(<<"build", "-utils">>)
GonePath == RepoFile(<<"gone">>)

\* a symbolic link of that name, none when it has no target
LinkSlot(name, target) ==
  IF target = <<>> THEN <<>> ELSE <<DirEntry(name, "link", target)>>

\* a tree under /repo with up to three symbolic links; the directories of
\* unlistable cannot be listed, those of unsearchable cannot be traversed
Tree(ln, up, back, unlistable, unsearchable) ==
  [entries |->
     (RepoPath :> (LinkSlot(<<"ln">>, ln) \o
                   << DirEntry(<<"src">>, "dir", <<>>),
                      DirEntry(<<"Build">>, "dir", <<>>),
                      DirEntry(<<"build", "-utils">>, "dir", <<>>),
                      DirEntry(<<"a", DOT, "js">>, "file", <<>>),
                      DirEntry(<<"notes", DOT, "txt">>, "file", <<>>) >>)) @@
     (SrcDir :> (<< DirEntry(<<"build">>, "dir", <<>>),
                    DirEntry(<<"m", DOT, "js">>, "file", <<>>) >> \o
                 LinkSlot(<<"up">>, up))) @@
     (SrcBuildDir :> << DirEntry(<<"x", DOT, "js">>, "file", <<>>) >>) @@
     (BuildCapDir :> << DirEntry(<<"y", DOT, "js">>, "file", <<>>) >>) @@
     (UtilsDir :> (<< DirEntry(<<"u", DOT, "js">>, "file", <<>>) >> \o
                   LinkSlot(<<"back">>, back))),
   unlistable |-> unlistable,
   unsearchable |-> unsearchable]

Trees ==
  { Tree(ln, up, back, mode[1], mode[2]) :
      ln \in {<<>>, SrcDir, GonePath, RepoFile(<<"a", DOT, "js">>)},
      up \in {<<>>, RepoPath, UtilsDir},
      back \in {<<>>, RepoPath, SrcDir},
      mode \in {<<{}, {}>>, <<{SrcDir}, {}>>, <<{}, {UtilsDir}>>} }

EmptyTree == [entries |-> EmptyMap, unlistable |-> {}, unsearchable |-> {}]

DefaultIgnorePatterns ==
  << <<"node_modules">>, <<DOT, "git">>, <<"dist">>, <<"build">>, <<"coverage">> >>

IgnorePatternLists ==
  { DefaultIgnorePatterns,
    << <<"src", SLASH, "build">> >>,
    << <<DOT, SLASH, "Build", SLASH>> >>,
    <<>> }

RECURSIVE DropLeadingSlashes(_)
DropLeadingSlashes(s) ==
  IF s # <<>> /\ Head(s) = SLASH THEN DropLeadingSlashes(Tail(s)) ELSE s

RECURSIVE DropTrailingSlashes(_)
DropTrailingSlashes(s) ==
  IF s # <<>> /\ s[Len(s)] = SLASH THEN DropTrailingSlashes(SubSeq(s, 1, Len(s) - 1)) ELSE s

\* pattern.replace(/\\/g, '/').replace(/^\.\/+/, '').replace(/\/+$/, '').toLowerCase()
NormalizePattern(pattern) ==
  LET forward == ToForwardSlashes(pattern)
      stripped == IF StartsWith(forward, <<DOT, SLASH>>)
                  THEN DropLeadingSlashes(Tail(forward))
                  ELSE forward
  IN ToLowerCase(DropTrailingSlashes(stripped))

NormalizePatterns(ignorePatterns) ==
  SelectSeq([i \in 1..Len(ignorePatterns) |-> NormalizePattern(ignorePatterns[i])],
            LAMBDA pattern : pattern # <<>>)

\* the pattern occurs inside the text
IsSubstring(text, pattern) ==
  \E i \in 1..(Len(text) - Len(pattern) + 1) : SubSeq(text, i, i + Len(pattern) - 1) = pattern

\* a mutation of PartsInclude: a part that contains the pattern is enough
PartsInclude_substring(relativeParts, pattern) ==
  \E i \in 1..Len(relativeParts) : IsSubstring(relativeParts[i], pattern)

\* relativeParts.includes(pattern)
PartsInclude(relativeParts, pattern) == Includes(relativeParts, pattern)

shouldIgnore(root, patterns, entryName, fullPath) ==
  \E normalizedEntryName \in {ToLowerCase(entryName)},
     relative \in {PathRelative(root, fullPath)} :
    \E forward \in {ToForwardSlashes(relative)} :
      \E relativePath \in {ToLowerCase(forward)} :
        \E relativeParts \in {SplitOn(relativePath, SLASH)} :
          \E i \in 1..Len(patterns) :
            \/ normalizedEntryName = patterns[i]
            \/ relativePath = patterns[i]
            \/ StartsWith(relativePath, patterns[i] \o <<SLASH>>)
            \/ PartsInclude(relativeParts, patterns[i])

\* the entry of that name in the listing, none when there is no such entry
EntriesNamed(listing, name) == SelectSeq(listing, LAMBDA entry : entry.name = name)

IsRealFile(t, p) ==
  \E d \in DOMAIN t.entries :
    \E i \in 1..Len(t.entries[d]) :
      t.entries[d][i].kind = "file" /\ d \o <<SLASH>> \o t.entries[d][i].name = p

\* the real path of an entry of the real directory, NullPath when the
\* directory cannot be searched or the entry is a link that dangles
ResolveEntry(t, realDir, entry) ==
  IF realDir \in t.unsearchable THEN NullPath
  ELSE IF entry.kind # "link" THEN realDir \o <<SLASH>> \o entry.name
  ELSE IF entry.target \in DOMAIN t.entries \/ IsRealFile(t, entry.target) THEN entry.target
  ELSE NullPath

\* the real path reached from the real directory along the segments, NullPath
\* when a segment is missing or cannot be resolved
RECURSIVE ResolveFrom(_, _, _)
ResolveFrom(t, realPath, segments) ==
  IF segments = <<>> THEN realPath
  ELSE IF realPath \notin DOMAIN t.entries THEN NullPath
  ELSE LET found == EntriesNamed(t.entries[realPath], Head(segments))
       IN IF found = <<>> THEN NullPath
          ELSE ResolveFrom(t, ResolveEntry(t, realPath, found[1]), Tail(segments))

\* fs.realpath(p) for a path under /repo, NullPath when it throws
Realpath(t, p) ==
  IF p = RepoPath THEN RepoPath
  ELSE ResolveFrom(t, RepoPath, SplitOn(PathRelative(RepoPath, p), SLASH))

\* analyzeFile(filePath) returns an analysis: the file, whose real path is
\* given, can be read and its extension belongs to a language
analyzeFile(t, filePath, realPath) ==
  /\ IsRealFile(t, realPath)
  /\ detectLanguage(PathExtname(filePath))

\* a mutation of VisitedKey: the path as walked
VisitedKey_nominal(dir, realDir) == dir

\* what visitedDirs holds for a directory: its real path
VisitedKey(dir, realDir) == realDir

\* a call of walk(dir); real is what fs.realpath(dir) gives
WalkFrame(dir, real) == [dir |-> dir, real |-> real, listed |-> FALSE, entries |-> <<>>]

WalkInit ==
  /\ tree \in Trees
  /\ walkPc = "idle"
  /\ walkStack = <<>>
  /\ rootDir = <<>>
  /\ normalizedPatterns = <<>>
  /\ visitedDirs = {}
  /\ walkAnalyses = <<>>
  /\ readdirs = <<>>
  /\ examined = {}

WalkIdle ==
  /\ tree = EmptyTree
  /\ walkPc = "idle"
  /\ walkStack = <<>>
  /\ rootDir = <<>>
  /\ normalizedPatterns = <<>>
  /\ visitedDirs = {}
  /\ walkAnalyses = <<>>
  /\ readdirs = <<>>
  /\ examined = {}

\* analyzeDirectory(dirPath, ignorePatterns) up to its call of walk(dirPath)
AnalyzeDirectory(dirPath, ignorePatterns) ==
  /\ walkPc = "idle"
  /\ walkPc' = "walking"
  /\ rootDir' = PathResolve(dirPath, <<>>)
  /\ normalizedPatterns' = NormalizePatterns(ignorePatterns)
  /\ walkStack' = <<WalkFrame(dirPath, Realpath(tree, dirPath))>>
  /\ UNCHANGED <<tree, visitedDirs, walkAnalyses, readdirs, examined, besidesWalk>>

\* the innermost walk returns; analyzeDirectory returns when it was the first
WalkReturns ==
  /\ walkStack' = SubSeq(walkStack, 1, Len(walkStack) - 1)
  /\ walkPc' = IF Len(walkStack) = 1 THEN "returned" ELSE "walking"

\* the innermost walk goes on with the frame
WalkContinues(frame) ==
  /\ walkStack' = [walkStack EXCEPT ![Len(walkStack)] = frame]
  /\ walkPc' = "walking"

\* walk(dir) from its start to the listing of the directory
WalkEnter ==
  /\ walkPc = "walking"
  /\ walkStack # <<>>
  /\ ~walkStack[Len(walkStack)].listed
  /\ \E frame \in {walkStack[Len(walkStack)]} :
     \E realDir \in {frame.real} :
     \E key \in {VisitedKey(frame.dir, realDir)} :
        IF realDir = NullPath
        THEN WalkReturns /\ UNCHANGED <<visitedDirs, readdirs>>
        ELSE IF key \in visitedDirs
        THEN WalkReturns /\ UNCHANGED <<visitedDirs, readdirs>>
        ELSE /\ visitedDirs' = visitedDirs \cup {key}
             /\ IF realDir \in tree.unlistable \/ realDir \notin DOMAIN tree.entries
                THEN /\ walkPc' = "failed"
                     /\ walkStack' = <<>>
                     /\ UNCHANGED readdirs
                ELSE /\ readdirs' = Append(readdirs, realDir)
                     /\ WalkContinues([frame EXCEPT !.listed = TRUE,
                                                    !.entries = tree.entries[realDir]])
  /\ UNCHANGED <<tree, rootDir, normalizedPatterns, walkAnalyses, examined, besidesWalk>>

\* one turn of the loop over the entries of the listed directory
WalkEntry ==
  /\ walkPc = "walking"
  /\ walkStack # <<>>
  /\ walkStack[Len(walkStack)].listed
  /\ walkStack[Len(walkStack)].entries # <<>>
  /\ \E frame \in {walkStack[Len(walkStack)]} :
     \E entry \in {Head(frame.entries)}, rest \in {[frame EXCEPT !.entries = Tail(frame.entries)]} :
     \E fullPath \in {PathJoin(frame.dir, entry.name)} :
     \E ignored \in {shouldIgnore(rootDir, normalizedPatterns, entry.name, fullPath)},
        stat \in {ResolveEntry(tree, frame.real, entry)} :
     \E descends \in {/\ ~ignored
                       /\ \/ entry.kind = "dir"
                          \/ entry.kind = "link" /\ stat \in DOMAIN tree.entries},
        analyzes \in {/\ ~ignored
                       /\ \/ entry.kind = "file"
                          \/ entry.kind = "link" /\ IsRealFile(tree, stat)} :
        /\ examined' = examined \cup {[path |-> fullPath, ignored |-> ignored]}
        /\ walkPc' = "walking"
        /\ walkStack' = IF descends
                        THEN Append([walkStack EXCEPT ![Len(walkStack)] = rest],
                                    WalkFrame(fullPath, stat))
                        ELSE [walkStack EXCEPT ![Len(walkStack)] = rest]
        /\ walkAnalyses' = IF analyzes /\ analyzeFile(tree, fullPath, stat)
                           THEN Append(walkAnalyses, fullPath)
                           ELSE walkAnalyses
  /\ UNCHANGED <<tree, rootDir, normalizedPatterns, visitedDirs, readdirs, besidesWalk>>

\* the loop over the entries is over
WalkLeave ==
  /\ walkPc = "walking"
  /\ walkStack # <<>>
  /\ walkStack[Len(walkStack)].listed
  /\ walkStack[Len(walkStack)].entries = <<>>
  /\ WalkReturns
  /\ UNCHANGED <<tree, rootDir, normalizedPatterns, visitedDirs, walkAnalyses, readdirs,
                 examined, besidesWalk>>

WalkNext ==
  \/ \E ignorePatterns \in IgnorePatternLists : AnalyzeDirectory(RepoPath, ignorePatterns)
  \/ WalkEnter
  \/ WalkEntry
  \/ WalkLeave

\* ------------------------------------------------------------------------
\* StaticAnalyzer.calculateComplexity: the content is a sequence of characters

MaxPieces == 2

QUESTION == "?"
COLON == ":"
AMP == "&"
BAR == "|"

\* \w of the regular expressions
IsWordChar(c) == c \notin {QUESTION, COLON, AMP, BAR, DOT, SPACE, NL}

\* the words of the patterns /\bword\b/g
ComplexityKeywords ==
  { <<"i", "f">>, <<"e", "l", "s", "e">>, <<"f", "o", "r">>, <<"w", "h", "i", "l", "e">>,
    <<"s", "w", "i", "t", "c", "h">>, <<"c", "a", "s", "e">>, <<"t", "r", "y">>,
    <<"c", "a", "t", "c", "h">> }

\* content.match(/\bword\b/g).length, 0 when there is no match
CountKeyword(text, word) ==
  Cardinality({ i \in 1..(Len(text) - Len(word) + 1) :
                  /\ SubSeq(text, i, i + Len(word) - 1) = word
                  /\ i > 1 => ~IsWordChar(text[i - 1])
                  /\ i + Len(word) <= Len(text) => ~IsWordChar(text[i + Len(word)]) })

\* content.match(/cc/g).length for a doubled character c: the matches are
\* taken from the left and do not overlap
RECURSIVE CountPairs(_, _)
CountPairs(text, c) ==
  IF Len(text) < 2 THEN 0
  ELSE IF text[1] = c /\ text[2] = c THEN 1 + CountPairs(SubSeq(text, 3, Len(text)), c)
  ELSE CountPairs(Tail(text), c)

\* content.match(/(?<!\?)\?(?![.?])/g).length
CountTernary(text) ==
  Cardinality({ i \in 1..Len(text) :
                  /\ text[i] = QUESTION
                  /\ i > 1 => text[i - 1] # QUESTION
                  /\ i < Len(text) => text[i + 1] \notin {DOT, QUESTION} })

RECURSIVE SumOfKeywords(_, _)
SumOfKeywords(text, words) ==
  IF words = {} THEN 0
  ELSE LET word == CHOOSE w \in words : TRUE
       IN CountKeyword(text, word) + SumOfKeywords(text, words \ {word})

calculateComplexity(text) ==
  1 + SumOfKeywords(text, ComplexityKeywords) + CountPairs(text, AMP) + CountPairs(text, BAR)
    + CountTernary(text)

\* a piece of program text and what it holds: whole-word keywords, logical
\* operators && and ||, conditional (ternary) expressions
Piece(text, keywords, logical, ternaries) ==
  [text |-> text, keywords |-> keywords, logical |-> logical, ternaries |-> ternaries]

Pieces ==
  { Piece(<<"i", "f">>, 1, 0, 0),
    Piece(<<"e", "l", "s", "e">>, 1, 0, 0),
    Piece(<<"f", "o", "r">>, 1, 0, 0),
    Piece(<<"w", "h", "i", "l", "e">>, 1, 0, 0),
    Piece(<<"s", "w", "i", "t", "c", "h">>, 1, 0, 0),
    Piece(<<"c", "a", "s", "e">>, 1, 0, 0),
    Piece(<<"t", "r", "y">>, 1, 0, 0),
    Piece(<<"c", "a", "t", "c", "h">>, 1, 0, 0),
    Piece(<<"i", "f", "f", "y">>, 0, 0, 0),
    Piece(<<"f", "o", "r", "m", "a", "t">>, 0, 0, 0),
    Piece(<<"r", "e", "t", "r", "y">>, 0, 0, 0),
    Piece(<<"a", AMP, AMP, "b">>, 0, 1, 0),
    Piece(<<"a", BAR, BAR, "b">>, 0, 1, 0),
    Piece(<<"a", AMP, "b">>, 0, 0, 0),
    Piece(<<"a", BAR, "b">>, 0, 0, 0),
    Piece(<<"a", QUESTION, DOT, "b">>, 0, 0, 0),
    Piece(<<"a", QUESTION, QUESTION, "b">>, 0, 0, 0),
    Piece(<<"c", QUESTION, "a", COLON, "b">>, 0, 0, 1),
    Piece(<<"c", SPACE, QUESTION, SPACE, "a", SPACE, COLON, SPACE, "b">>, 0, 0, 1),
    Piece(<<"c", QUESTION, DOT, "5", COLON, "1">>, 0, 0, 1),
    Piece(<<"i", "f", SPACE, "a", AMP, AMP, "b", QUESTION, "c", COLON, "d">>, 1, 1, 1) }

\* the pieces one after the other, each on a line of its own
RECURSIVE ContentOf(_)
ContentOf(list) ==
  IF list = <<>> THEN <<>> ELSE Head(list).text \o <<NL>> \o ContentOf(Tail(list))

ComplexityInit ==
  /\ pieces \in UNION {[1..n -> Pieces] : n \in 0..MaxPieces}
  /\ content = ContentOf(pieces)
  /\ complexity = 0

ComplexityIdle ==
  /\ pieces = <<>>
  /\ content = <<>>
  /\ complexity = 0

CalculateComplexity ==
  /\ complexity = 0
  /\ complexity' = calculateComplexity(content)
  /\ UNCHANGED <<pieces, content, besidesComplexity>>

ComplexityNext == CalculateComplexity

\* ------------------------------------------------------------------------
\* GitAnalyzer: the parse of a log text (any text the full log may hold)
\* ------------------------------------------------------------------------

\* lines of a log text
MaxLines == 4

HeaderLine(h) == <<h, TAB, "ann", TAB, "2024-01-01", TAB, "msg">>

\* the lines a log text is made of: commit headers, a path as it is, with a
\* trailing blank and with a backslash, an empty line, and a line with the
\* hash and the author only
LogLines ==
  { HeaderLine("abc0001"),
    HeaderLine("abc0002"),
    FileA,
    FileA \o <<SPACE>>,
    FileB,
    <<"lib", BSLASH, "b", DOT, "js">>,
    <<>>,
    <<"abc0001", TAB, "ann">> }

LogTexts == {JoinWith(lines, NL) : lines \in UNION {[1..n -> LogLines] : n \in 0..MaxLines}}

NotParsed == [parsed |-> FALSE, index |-> EmptyIndex]

LogInit ==
  /\ logText \in LogTexts
  /\ parsedLog = NotParsed

\* no log was read
LogIdle ==
  /\ logText = <<>>
  /\ parsedLog = NotParsed

\* repositoryIndex = this._parseRepositoryLog(rawLog)
ParseRepositoryLog ==
  /\ ~parsedLog.parsed
  /\ parsedLog' = [parsed |-> TRUE, index |-> _parseRepositoryLog(logText)]
  /\ UNCHANGED logText
  /\ UNCHANGED besidesLog

LogNext == ParseRepositoryLog

\* ------------------------------------------------------------------------
\* StaticAnalyzer: projects checked out at several places, with path aliases
\* and a base root (the inputs of import resolution)
\* ------------------------------------------------------------------------

\* files analysed in one project
MaxLayoutFiles == 2

\* where the repository is checked out
CheckoutRoots ==
  { RepoPath,
    <<SLASH, "test", SLASH, "repo">>,
    <<SLASH, "srv", SLASH, "Tests", SLASH, "repo">> }

At(root, relative) == root \o <<SLASH>> \o relative

\* files of the layout, relative to the checkout
RelA == <<"a", DOT, "js">>
RelB == <<"b", DOT, "js">>
RelBIndex == <<"b", SLASH, "index", DOT, "js">>
RelLibX == <<"lib", SLASH, "x", DOT, "js">>
RelAtX == <<AT, SLASH, "x", DOT, "js">>
RelLibScope == <<"lib", "scope", SLASH, "pkg", DOT, "js">>
RelVendorRary == <<"vendor", "rary", SLASH, "x", DOT, "js">>
RelFs == <<"fs", DOT, "js">>
RelTildeB == <<TILDE, "b", DOT, "js">>
RelTestsT == <<"tests", SLASH, "t", DOT, "js">>

\* import specifiers: the scoped package @scope/pkg, library/x, the alias
\* uses @/x and utils, ~b, and b.js without a leading dot
ImportAtX == <<AT, SLASH, "x">>
ImportScoped == <<AT, "scope", SLASH, "pkg">>
ImportLibrary == <<"lib", "rary", SLASH, "x">>
ImportUtils == <<"utils">>
ImportTildeB == <<TILDE, "b">>
ImportBare == <<"b", DOT, "js">>

\* the analyses of a layout, paths relative to the checkout
LayoutAnalyses ==
  { FileAnalysis(RelA, <<ImportB, ImportAtX, ImportFs>>, <<"run">>),
    FileAnalysis(RelA, <<ImportScoped, ImportLibrary, ImportUtils, ImportBare>>, <<>>),
    FileAnalysis(RelB, <<>>, <<"helper">>),
    FileAnalysis(RelLibX, <<ImportUpB, ImportTildeB>>, <<"x">>),
    FileAnalysis(RelAtX, <<>>, <<"atx">>),
    FileAnalysis(RelLibScope, <<>>, <<"pkg">>),
    FileAnalysis(RelVendorRary, <<>>, <<"v">>),
    FileAnalysis(RelFs, <<>>, <<"fsx">>),
    FileAnalysis(RelTildeB, <<>>, <<"tb">>),
    FileAnalysis(RelTestsT, <<ImportUpA>>, <<"t">>) }

Layouts ==
  {list \in UNION {[1..n -> LayoutAnalyses] : n \in 0..MaxLayoutFiles} :
     \A i, j \in 1..Len(list) : list[i].path = list[j].path => i = j}

\* the analyses of the layout checked out at root: analysis.path is absolute
Rooted(root, layout) ==
  [i \in 1..Len(layout) |->
     FileAnalysis(At(root, layout[i].path), layout[i].imports, layout[i].exports)]

LayoutFiles ==
  {RelA, RelB, RelBIndex, RelLibX, RelAtX, RelLibScope, RelVendorRary, RelFs, RelTildeB,
   RelTestsT}

\* the disks: every file of the layout in place, or lib/x.js missing
LayoutDisks(root) ==
  { {At(root, f) : f \in LayoutFiles},
    {At(root, f) : f \in LayoutFiles \ {RelLibX}} }

\* the configurations loaded at root: none; a base root only; baseUrl "." with
\* paths {"@/*": ["lib/*"]}; baseUrl "." with paths {"lib/*": ["vendor/*"],
\* "utils": ["b.js"]}
LayoutConfigs(root) ==
  { NoConfig,
    [baseUrl |-> root, pathAliases |-> <<>>],
    [baseUrl |-> root,
     pathAliases |-> parsePathAliases(<<[pattern |-> <<AT, SLASH, STAR>>,
                                         targets |-> << <<"lib", SLASH, STAR>> >>]>>,
                                      root)],
    [baseUrl |-> root,
     pathAliases |-> parsePathAliases(<<[pattern |-> <<"lib", SLASH, STAR>>,
                                         targets |-> << <<"vendor", SLASH, STAR>> >>],
                                        [pattern |-> <<"utils">>,
                                         targets |-> << <<"b", DOT, "js">> >>]>>,
                                      root)] }

LayoutInit ==
  /\ \E root \in CheckoutRoots :
       /\ diskFiles \in LayoutDisks(root)
       /\ pathResolutionConfig \in LayoutConfigs(root)
       /\ analyses \in {Rooted(root, layout) : layout \in Layouts}
  /\ callGraph = EmptyGraph
  /\ callGraphBuilt = FALSE
  /\ deadCode = NoDeadCode

\* ------------------------------------------------------------------------
\* ast-extractor: export names of module.exports = <value> and export = <value>
\* ------------------------------------------------------------------------

NoName == <<>>

\* a syntax node: its type, its name (an identifier's name, a literal's
\* value as text, the name of node.id; NoName where there is none) and, for an
\* object literal, its properties
AstNode(type, name, properties) == [type |-> type, name |-> name, properties |-> properties]

\* a member of an object literal and its key
Property(type, key) == [type |-> type, key |-> key]

IdentifierKey(n) == AstNode("Identifier", <<n>>, <<>>)

PropA == Property("ObjectProperty", IdentifierKey("a"))
PropB == Property("ObjectProperty", IdentifierKey("b"))
PropString == Property("ObjectProperty", AstNode("StringLiteral", <<"k">>, <<>>))
PropNumeric == Property("ObjectProperty", AstNode("NumericLiteral", <<"7">>, <<>>))
PropComputed == Property("ObjectProperty", AstNode("TemplateLiteral", NoName, <<>>))
Method == Property("ObjectMethod", IdentifierKey("m"))
Spread == Property("SpreadElement", AstNode("Identifier", <<"rest">>, <<>>))

ObjectLiteral(properties) == AstNode("ObjectExpression", NoName, properties)

\* the values assigned: foo, function run() {}, function () {}, () => 1,
\* class Widget {}, class {}, object literals, require('x'), 'text', 1
AssignedValues ==
  { AstNode("Identifier", <<"foo">>, <<>>),
    AstNode("FunctionExpression", <<"run">>, <<>>),
    AstNode("FunctionExpression", NoName, <<>>),
    AstNode("ArrowFunctionExpression", NoName, <<>>),
    AstNode("ClassExpression", <<"Widget">>, <<>>),
    AstNode("ClassExpression", NoName, <<>>),
    ObjectLiteral(<<>>),
    ObjectLiteral(<<PropA>>),
    ObjectLiteral(<<PropA, PropB>>),
    ObjectLiteral(<<PropB, PropA, PropB>>),
    ObjectLiteral(<<Method, PropString>>),
    ObjectLiteral(<<PropNumeric, PropA>>),
    ObjectLiteral(<<Spread>>),
    ObjectLiteral(<<PropA, Spread>>),
    ObjectLiteral(<<PropComputed>>),
    AstNode("CallExpression", NoName, <<>>),
    AstNode("StringLiteral", <<"text">>, <<>>),
    AstNode("NumericLiteral", <<"1">>, <<>>),
    AstNode("MemberExpression", NoName, <<>>),
    AstNode("NewExpression", NoName, <<>>) }

\* the left sides: module.exports, exports.foo, exports.foo.bar,
\* module.exports.bar, module.exports.bar.baz, other.thing, a member
\* expression without a path (computed), and a plain identifier
NoPath == <<>>

Member(leftPath) == [type |-> "MemberExpression", path |-> leftPath]

LeftSides ==
  { Member(<<"module", DOT, "exports">>),
    Member(<<"exports", DOT, "foo">>),
    Member(<<"exports", DOT, "foo", DOT, "bar">>),
    Member(<<"module", DOT, "exports", DOT, "bar">>),
    Member(<<"module", DOT, "exports", DOT, "bar", DOT, "baz">>),
    Member(<<"other", DOT, "thing">>),
    Member(NoPath),
    [type |-> "Identifier", path |-> NoPath] }

Assignment(left, right) == [type |-> "AssignmentExpression", left |-> left, right |-> right]

\* export = <value>
TSExportAssignment(expression) ==
  [type |-> "TSExportAssignment", left |-> Member(NoPath), right |-> expression]

ExportStatements ==
  {Assignment(left, right) : left \in LeftSides, right \in AssignedValues}
    \cup {TSExportAssignment(expression) : expression \in AssignedValues}

getIdentifierName(node) ==
  IF node.type \in {"Identifier", "StringLiteral", "NumericLiteral"} THEN node.name
  ELSE NoName

\* node.id && node.id.name ? node.id.name : 'default'
NameOrDefault(node) == IF node.name # NoName THEN node.name ELSE <<"default">>

\* the names the forEach over node.properties pushes
RECURSIVE PropertyNames(_)
PropertyNames(properties) ==
  IF properties = <<>> THEN <<>>
  ELSE LET property == Head(properties)
           propertyName == getIdentifierName(property.key)
       IN (IF property.type \in {"ObjectProperty", "ObjectMethod"} /\ propertyName # NoName
           THEN <<propertyName>> ELSE <<>>)
          \o PropertyNames(Tail(properties))

\* return ['default'] for a value of no other kind
OtherValueNames(node) == << <<"default">> >>

getExportNamesFromValue(node) ==
  IF node.type = "Identifier" THEN <<node.name>>
  ELSE IF node.type \in {"FunctionExpression", "ArrowFunctionExpression", "ClassExpression",
                         "ClassDeclaration", "FunctionDeclaration"}
  THEN <<NameOrDefault(node)>>
  ELSE IF node.type = "ObjectExpression"
  THEN LET names == PropertyNames(node.properties)
       IN IF Len(names) > 0 THEN names ELSE << <<"default">> >>
  ELSE OtherValueNames(node)

\* leftPath.slice(prefix.length).split('.')[0]
FirstAfter(leftPath, prefix) ==
  SplitOn(SubSeq(leftPath, Len(prefix) + 1, Len(leftPath)), DOT)[1]

\* the names addCommonJsExports adds for the assignment
addCommonJsExports(node) ==
  LET leftPath == node.left.path
  IN IF node.left.type # "MemberExpression" \/ leftPath = NoPath THEN <<>>
     ELSE IF leftPath = <<"module", DOT, "exports">> THEN getExportNamesFromValue(node.right)
     ELSE IF StartsWith(leftPath, <<"exports", DOT>>)
     THEN LET exportName == FirstAfter(leftPath, <<"exports", DOT>>)
          IN IF exportName # <<>> THEN <<exportName>> ELSE <<>>
     ELSE IF StartsWith(leftPath, <<"module", DOT, "exports", DOT>>)
     THEN LET exportName == FirstAfter(leftPath, <<"module", DOT, "exports", DOT>>)
          IN IF exportName # <<>> THEN <<exportName>> ELSE <<>>
     ELSE <<>>

\* what the visitor adds to exports for the statement
VisitStatement(node) ==
  IF node.type = "TSExportAssignment" THEN getExportNamesFromValue(node.right)
  ELSE IF node.type = "AssignmentExpression" THEN addCommonJsExports(node)
  ELSE <<>>

NotVisited == [visited |-> FALSE, names |-> <<>>]

ExportInit ==
  /\ exportStatement \in ExportStatements
  /\ exportNames = NotVisited

NoStatement == [type |-> "none", left |-> Member(NoPath), right |-> ObjectLiteral(<<>>)]

\* no file was given to the extractor
ExportIdle ==
  /\ exportStatement = NoStatement
  /\ exportNames = NotVisited

\* extractAstData visits the statement; exports is a Set
ExtractExports ==
  /\ ~exportNames.visited
  /\ exportNames' = [visited |-> TRUE,
                     names |-> InsertionOrder(VisitStatement(exportStatement), <<>>)]
  /\ UNCHANGED exportStatement
  /\ UNCHANGED besidesExport

ExportNext == ExtractExports

\* ------------------------------------------------------------------------
\* StaticAnalyzer: loading tsconfig.json through its chain of extends
\* ------------------------------------------------------------------------

\* entries of one extends list
MaxExtends == 2

TsConfig == RepoFile(<<"tsconfig", DOT, "json">>)
BaseConfig == RepoFile(<<"config", SLASH, "base", DOT, "json">>)
CConfig == RepoFile(<<"c", DOT, "json">>)
DConfig == RepoFile(<<"config", SLASH, "d", DOT, "json">>)
MissingConfig == RepoFile(<<"missing", DOT, "json">>)

\* a configuration file: whether its text parses, its extends entries, its
\* compilerOptions.baseUrl (NullPath when absent) and compilerOptions.paths
ConfigFile(parsed, extendsValue, baseUrl, paths) ==
  [parsed |-> parsed, extends |-> extendsValue, baseUrl |-> baseUrl, paths |-> paths]

PathsEntry(pattern, targets) == [pattern |-> pattern, targets |-> targets]

\* the extends entry a file uses for another file: a relative path; c.json is
\* named without its extension, and tsconfig.json names itself by its
\* directory
ExtendsEntry(from, to) ==
  IF from = to THEN <<DOT>>
  ELSE LET relative == <<DOT, SLASH>> \o PathRelative(PathDirname(from), to)
       IN IF to = CConfig THEN SubSeq(relative, 1, Len(relative) - 2) ELSE relative

ExtendsEntries(from, targets) == [i \in 1..Len(targets) |-> ExtendsEntry(from, targets[i])]

\* lists of up to MaxExtends different files
ListsOf(files) ==
  {list \in UNION {[1..n -> files] : n \in 0..MaxExtends} :
     \A i, j \in 1..Len(list) : list[i] = list[j] => i = j}

\* what tsconfig.json may hold: nothing but extends, or a base root "." and
\* paths {"@/*": ["src/*"]} too
TsConfigFiles ==
  {ConfigFile(TRUE, ExtendsEntries(TsConfig, targets), settings.baseUrl, settings.paths) :
     targets \in ListsOf({BaseConfig, CConfig, TsConfig, MissingConfig}),
     settings \in {[baseUrl |-> NullPath, paths |-> <<>>],
                   [baseUrl |-> <<DOT>>,
                    paths |-> <<PathsEntry(<<AT, SLASH, STAR>>, << <<"src", SLASH, STAR>> >>)>>]}}

\* config/base.json: baseUrl "." and paths {"@/*": ["lib/*"], "~/*": ["b/*"]}
BaseConfigFiles ==
  {ConfigFile(TRUE, ExtendsEntries(BaseConfig, targets), <<DOT>>,
              <<PathsEntry(<<AT, SLASH, STAR>>, << <<"lib", SLASH, STAR>> >>),
                PathsEntry(<<TILDE, SLASH, STAR>>, << <<"b", SLASH, STAR>> >>)>>) :
     targets \in {<<>>, <<DConfig>>, <<TsConfig>>, <<CConfig>>}}

\* c.json: paths {"~/*": ["c/*"]}
CConfigFiles ==
  {ConfigFile(TRUE, ExtendsEntries(CConfig, targets), NullPath,
              <<PathsEntry(<<TILDE, SLASH, STAR>>, << <<"c", SLASH, STAR>> >>)>>) :
     targets \in {<<>>, <<DConfig>>, <<BaseConfig>>, <<TsConfig>>}}

Unparsable == ConfigFile(FALSE, <<>>, NullPath, <<>>)

\* config/d.json: baseUrl "d" and paths {"utils": ["u.js"]}, or a text that
\* is no JSON
DConfigFiles ==
  {ConfigFile(TRUE, ExtendsEntries(DConfig, targets), <<"d">>,
              <<PathsEntry(<<"utils">>, << <<"u", DOT, "js">> >>)>>) :
     targets \in {<<>>, <<BaseConfig>>, <<TsConfig>>}}
    \cup {Unparsable}

ConfigPaths == {TsConfig, BaseConfig, CConfig, DConfig}

\* the disks: the four files, no jsconfig.json, no missing.json
ConfigDisks ==
  {[p \in ConfigPaths |->
      CASE p = TsConfig -> t [] p = BaseConfig -> b [] p = CConfig -> c [] OTHER -> d] :
     t \in TsConfigFiles, b \in BaseConfigFiles, c \in CConfigFiles, d \in DConfigFiles}

\* fsSync.statSync(candidate).isFile()
IsConfigFile(candidate) == candidate \in DOMAIN configDisk

RECURSIVE FirstConfigFile(_)
FirstConfigFile(candidatePaths) ==
  IF candidatePaths = <<>> THEN NullPath
  ELSE IF IsConfigFile(Head(candidatePaths)) THEN Head(candidatePaths)
  ELSE FirstConfigFile(Tail(candidatePaths))

resolveConfigFilePath(basePath) ==
  FirstConfigFile(<<basePath,
                    basePath \o <<DOT, "json">>,
                    PathJoin(basePath, <<"tsconfig", DOT, "json">>),
                    PathJoin(basePath, <<"jsconfig", DOT, "json">>)>>)

\* an entry that names a package is looked up by require.resolve: no package
\* with a configuration is installed
resolveExtendedConfigPath(extendsValue, currentDir) ==
  IF extendsValue = <<>> THEN NullPath
  ELSE IF StartsWith(extendsValue, <<DOT>>) \/ StartsWith(extendsValue, <<SLASH>>)
  THEN TheOne({resolveConfigFilePath(basePath) :
                  basePath \in {PathResolve(currentDir, extendsValue)}})
  ELSE NullPath

\* JSON.parse of the file, null when it throws
readJsonConfig(configPath) == configDisk[configPath]

getExtendsEntries(extendsValue) == extendsValue

ChainItem(configPath, config) == [configPath |-> configPath, config |-> config]

\* a call of getConfigChain past its guards: the entries still to expand and
\* the chain collected so far
ConfigFrame(configPath, config) ==
  [configPath |-> configPath, config |-> config,
   pending |-> getExtendsEntries(config.extends), chain |-> <<>>]

\* a mutation of the push: the configuration is put before those it extends
ChainPush_first(chain, item) == <<item>> \o chain

\* chain.push({ configPath, config }) after the parents' chains
ChainPush(chain, item) == Append(chain, item)

\* Object.assign(mergedPaths, compilerOptions.paths)
RECURSIVE ObjectAssign(_, _)
ObjectAssign(mergedPaths, paths) ==
  IF paths = <<>> THEN mergedPaths
  ELSE LET entry == Head(paths)
           at == {i \in 1..Len(mergedPaths) : mergedPaths[i].pattern = entry.pattern}
       IN TheOne({ObjectAssign(assigned, Tail(paths)) :
                    assigned \in {IF at = {} THEN Append(mergedPaths, entry)
                                  ELSE [i \in 1..Len(mergedPaths) |->
                                          IF i \in at THEN entry ELSE mergedPaths[i]]}})

\* the configChain.forEach of loadPathResolutionConfig
RECURSIVE MergeChain(_, _, _)
MergeChain(chain, baseUrl, mergedPaths) ==
  IF chain = <<>> THEN [baseUrl |-> baseUrl, pathAliases |-> parsePathAliases(mergedPaths, baseUrl)]
  ELSE LET compilerOptions == Head(chain).config
           configDir == PathDirname(Head(chain).configPath)
       IN TheOne({MergeChain(Tail(chain), nextBaseUrl, nextPaths) :
                    nextBaseUrl \in {IF compilerOptions.baseUrl # NullPath
                                     THEN PathResolve(configDir, compilerOptions.baseUrl)
                                     ELSE baseUrl},
                    nextPaths \in {ObjectAssign(mergedPaths, compilerOptions.paths)}})

\* what loadPathResolutionConfig returns for the chain of tsconfig.json;
\* with an empty chain it goes on to jsconfig.json, which does not exist
loadPathResolutionConfig(chain) ==
  IF Len(chain) = 0 THEN NoConfig ELSE MergeChain(chain, RepoPath, <<>>)

ConfigInit ==
  /\ configDisk \in ConfigDisks
  /\ configPc = "idle"
  /\ configStack = <<>>
  /\ configVisited = {}
  /\ configChain = <<>>
  /\ loadedConfig = NoConfig

\* no analyzer was constructed
ConfigIdle ==
  /\ configDisk = [p \in {} |-> Unparsable]
  /\ configPc = "idle"
  /\ configStack = <<>>
  /\ configVisited = {}
  /\ configChain = <<>>
  /\ loadedConfig = NoConfig

\* new StaticAnalyzer(repoPath): loadPathResolutionConfig finds tsconfig.json
\* and calls getConfigChain for it
LoadPathResolutionConfig ==
  /\ configPc = "idle"
  /\ IsConfigFile(PathJoin(RepoPath, <<"tsconfig", DOT, "json">>))
  /\ \E absoluteConfigPath \in {PathResolve(Cwd, PathJoin(RepoPath, <<"tsconfig", DOT, "json">>))} :
       \E parsedConfig \in {readJsonConfig(absoluteConfigPath)} :
         /\ configVisited' = {absoluteConfigPath}
         /\ IF parsedConfig.parsed
            THEN /\ configStack' = <<ConfigFrame(absoluteConfigPath, parsedConfig)>>
                 /\ configPc' = "chain"
                 /\ UNCHANGED <<configChain, loadedConfig>>
            ELSE /\ configStack' = <<>>
                 /\ configPc' = "done"
                 /\ configChain' = <<>>
                 /\ loadedConfig' = loadPathResolutionConfig(<<>>)
  /\ UNCHANGED configDisk
  /\ UNCHANGED besidesConfig

\* the innermost call takes its next extends entry: the entry resolves to no
\* file, to a file visited before, to a file that does not parse (all give
\* no parent chain), or getConfigChain is entered for the file it resolves to
ExpandExtendsEntry ==
  /\ configPc = "chain"
  /\ configStack # <<>>
  /\ \E n \in {Len(configStack)} :
       /\ configStack[n].pending # <<>>
       /\ \E resolvedExtendsPath \in
              {resolveExtendedConfigPath(Head(configStack[n].pending),
                                         PathDirname(configStack[n].configPath))} :
            \E rest \in {[configStack EXCEPT ![n].pending = Tail(@)]} :
              IF resolvedExtendsPath = NullPath \/ resolvedExtendsPath \in configVisited
              THEN /\ configStack' = rest
                   /\ UNCHANGED configVisited
              ELSE /\ configVisited' = configVisited \cup {resolvedExtendsPath}
                   /\ configStack' =
                        IF readJsonConfig(resolvedExtendsPath).parsed
                        THEN Append(rest, ConfigFrame(resolvedExtendsPath,
                                                      readJsonConfig(resolvedExtendsPath)))
                        ELSE rest
  /\ UNCHANGED <<configDisk, configPc, configChain, loadedConfig>>
  /\ UNCHANGED besidesConfig

\* the innermost call has expanded all its entries: it pushes its own
\* configuration and returns its chain, to the call that expanded it or to
\* loadPathResolutionConfig, which merges the chain
ReturnConfigChain ==
  /\ configPc = "chain"
  /\ configStack # <<>>
  /\ \E n \in {Len(configStack)} :
       /\ configStack[n].pending = <<>>
       /\ \E chain \in {ChainPush(configStack[n].chain,
                                  ChainItem(configStack[n].configPath, configStack[n].config))} :
            IF n = 1
            THEN /\ configStack' = <<>>
                 /\ configPc' = "done"
                 /\ configChain' = chain
                 /\ loadedConfig' = loadPathResolutionConfig(chain)
            ELSE /\ configStack' =
                      [SubSeq(configStack, 1, n - 1) EXCEPT ![n - 1].chain = @ \o chain]
                 /\ UNCHANGED <<configPc, configChain, loadedConfig>>
  /\ UNCHANGED <<configDisk, configVisited>>
  /\ UNCHANGED besidesConfig

ConfigNext ==
  \/ LoadPathResolutionConfig
  \/ ExpandExtendsEntry
  \/ ReturnConfigChain

vars == <<gitVars, graphVars, queryVars, walkVars, complexityVars, logVars, exportVars, configVars>>

Init == GitInit /\ GraphIdle /\ QueryIdle /\ WalkIdle /\ ComplexityIdle /\ LogIdle /\ ExportIdle /\ ConfigIdle

Next == GitNext

Spec == Init /\ [][Next]_vars

InitGraph == GraphInit /\ GitIdle /\ QueryIdle /\ WalkIdle /\ ComplexityIdle /\ LogIdle /\ ExportIdle /\ ConfigIdle

NextGraph == GraphNext

SpecGraph == InitGraph /\ [][NextGraph]_vars

InitQuery == QueryInit /\ GitIdle /\ GraphIdle /\ WalkIdle /\ ComplexityIdle /\ LogIdle /\ ExportIdle /\ ConfigIdle

NextQuery == QueryNext

SpecQuery == InitQuery /\ [][NextQuery]_vars

InitWalk == WalkInit /\ GitIdle /\ GraphIdle /\ QueryIdle /\ ComplexityIdle /\ LogIdle /\ ExportIdle /\ ConfigIdle

NextWalk == WalkNext

SpecWalk == InitWalk /\ [][NextWalk]_vars

\* every file-system call of the walk completes, so the walk keeps stepping
SpecWalkLive == SpecWalk /\ WF_vars(NextWalk)

InitComplexity == ComplexityInit /\ GitIdle /\ GraphIdle /\ QueryIdle /\ WalkIdle /\ LogIdle /\ ExportIdle /\ ConfigIdle

NextComplexity == ComplexityNext

SpecComplexity == InitComplexity /\ [][NextComplexity]_vars

InitLog == LogInit /\ GitIdle /\ GraphIdle /\ QueryIdle /\ WalkIdle /\ ComplexityIdle /\ ExportIdle /\ ConfigIdle

NextLog == LogNext

SpecLog == InitLog /\ [][NextLog]_vars

InitLayout == LayoutInit /\ GitIdle /\ QueryIdle /\ WalkIdle /\ ComplexityIdle /\ LogIdle /\ ExportIdle /\ ConfigIdle

SpecLayout == InitLayout /\ [][NextGraph]_vars

InitExport == ExportInit /\ GitIdle /\ GraphIdle /\ QueryIdle /\ WalkIdle /\ ComplexityIdle /\ LogIdle /\ ConfigIdle

NextExport == ExportNext

SpecExport == InitExport /\ [][NextExport]_vars

InitConfig == ConfigInit /\ GitIdle /\ GraphIdle /\ QueryIdle /\ WalkIdle /\ ComplexityIdle /\ LogIdle /\ ExportIdle

NextConfig == ConfigNext

SpecConfig == InitConfig /\ [][NextConfig]_vars

\* the constructor runs to its end: every step of it is taken
SpecConfigLive == SpecConfig /\ WF_vars(NextConfig)

\* ------------------------------------------------------------------------
\* GitAnalyzer: properties of the history index (specification Spec)
\* ------------------------------------------------------------------------

BuildIds == 1..Len(builds)

PendingBuilds == {b \in BuildIds : builds[b].pc \in {"check", "raw"}}

FullLogsInFlight == {b \in BuildIds : builds[b].pc = "raw"}

\* the number of calls for which P holds
CountCalls(P(_)) == SumOver(calls, {call \in DOMAIN calls : P(call)})

AwaitsBuild(call, b) == call.pc = "index" /\ call.build = b

\* C1: callers that arrive before the index exists share one pending build:
\* at most one build is pending and at most one full-log invocation is in
\* flight at any time, a caller that waits for a pending build waits for the
\* stored one, and when the build nobody preceded succeeds, the full log has
\* been invoked exactly once in total.
C1_SinglePendingBuild ==
  /\ Cardinality(PendingBuilds) <= 1
  /\ Cardinality(FullLogsInFlight) <= 1
  /\ \A b \in PendingBuilds : repoIndexPromise = b
  /\ \A call \in DOMAIN calls :
       call.pc = "index" /\ call.build \in PendingBuilds => call.build = repoIndexPromise
  /\ (builds # <<>> /\ builds[1].pc = "ok") => gitCalls.fullLog = 1

\* two callers are still parked on the first build, which has succeeded with a
\* single full-log invocation
C1_Witness ==
  /\ Len(builds) = 1
  /\ builds[1].pc = "ok"
  /\ gitCalls.fullLog = 1
  /\ CountCalls(LAMBDA call : AwaitsBuild(call, 1)) >= 2

\* C2: once the index was built, no call made afterwards starts a build (so
\* none invokes the full log) or invokes the per-file log, and a history query
\* made afterwards returns what the history cache holds for the file.
C2_BuiltIndexIsReused ==
  /\ \A b \in BuildIds : ~builds[b].late
  /\ IndexBuilt => PendingBuilds = {}
  /\ \A call \in DOMAIN calls :
       call.late =>
         /\ call.fileLogs = 0
         /\ call.pc # "log"
         /\ LET normalizedPath == _normalizeFilePath(call.path)
            IN (call.op = "getFileHistory" /\ call.pc = "done" /\ normalizedPath # <<>>) =>
                 /\ normalizedPath \in DOMAIN fileHistoryCache
                 /\ call.result = fileHistoryCache[normalizedPath]

\* the same file was asked for twice after the build, and both answers are in
C2_Witness ==
  /\ IndexBuilt
  /\ gitCalls.fullLog = 1
  /\ \E call \in DOMAIN calls :
       /\ call.late
       /\ call.pc = "done"
       /\ call.op = "getFileHistory"
       /\ call.path = FileA
       /\ call.result # <<>>
       /\ calls[call] >= 2

\* C3: a failed build never stays stored: the slot holds no failed build, a
\* build that has not failed is the last one started and is the stored one (so
\* at most one build is started after a failure and a successful retry stays
\* available), every caller that awaited the failed build took its failure
\* path, and a call made after a successful retry uses the index.
C3_FailedBuildIsCleared ==
  /\ repoIndexPromise # 0 => builds[repoIndexPromise].pc # "failed"
  /\ \A b \in BuildIds :
       builds[b].pc # "failed" => repoIndexPromise = b /\ b = Len(builds)
  /\ \A call \in DOMAIN calls :
       (call.build # 0 /\ builds[call.build].pc = "failed" /\ call.pc \in {"log", "done"}) =>
         IF call.op = "getRecentlyModifiedFiles" THEN DOMAIN call.result = {} /\ ~call.raised
         ELSE IF call.op = "getFilesChangedTogether" THEN call.result = <<>> /\ ~call.raised
         ELSE call.fileLogs = 1
  /\ \A call \in DOMAIN calls :
       (call.late /\ call.build # 0) => builds[call.build].pc = "ok"

\* two callers awaited the first build, it failed, and a later query started
\* the second build, which succeeded and answered it
C3_Witness ==
  /\ Len(builds) = 2
  /\ builds[1].pc = "failed"
  /\ builds[2].pc = "ok"
  /\ repoIndexPromise = 2
  /\ CountCalls(LAMBDA call : call.build = 1) >= 2
  /\ \E call \in DOMAIN calls : call.build = 2 /\ call.pc = "done"

\* C4: on a root that is no repository every query that has returned gave its
\* documented default and did not raise; only checkIsRepo raised.
C4_NotARepoDefaults ==
  ~isRepo =>
    \A call \in DOMAIN calls :
      call.pc = "done" =>
        /\ call.raised <=> call.op = "checkIsRepo"
        /\ call.op = "checkIsRepo" => call.result = <<"Not a git repository">>
        /\ call.op = "getFileHistory" => call.result = <<>>
        /\ call.op = "getFileOwnership" =>
             call.result = [primary |-> <<"Unknown">>, contributors |-> <<>>,
                            totalCommits |-> 0]
        /\ call.op = "getChangeFrequency" => call.result = [num |-> 0, den |-> 1]
        /\ call.op = "getFilesChangedTogether" => call.result = <<>>
        /\ call.op = "getRecentlyModifiedFiles" => DOMAIN call.result = {}
        /\ call.op = "getAllTrackedFiles" => call.result = <<>>

\* an ownership query, a recent-files query and checkIsRepo have all returned
\* on a root that is no repository
C4_Witness ==
  /\ ~isRepo
  /\ \E c1, c2, c3 \in DOMAIN calls :
       /\ c1.pc = "done" /\ c1.op = "getFileOwnership"
       /\ c2.pc = "done" /\ c2.op = "getRecentlyModifiedFiles"
       /\ c3.pc = "done" /\ c3.op = "checkIsRepo" /\ c3.raised

\* C5: the outcome of the repository check is remembered, whether it passed or
\* not: once the tool has answered a check, no later call asks the tool again.
C5_CheckOutcomeCached ==
  [][gitCalls.checkIsRepoDone >= 1 => gitCalls'.checkIsRepo = gitCalls.checkIsRepo]_vars

HistoryQueries == {"getFileHistory", "getFileOwnership", "getChangeFrequency"}

\* what a history query makes of the commit list getFileHistory returned
FromHistory(op, history) ==
  CASE op = "getFileHistory" -> history
    [] op = "getFileOwnership" -> Ownership(history)
    [] op = "getChangeFrequency" -> ChangeFrequency(history)

\* C6: when the build a history query awaited failed at the full log, the
\* query answers from the per-file log of its file: the list that log gave, or
\* the ownership / frequency computed from it; it answers from the empty list
\* only when the per-file log failed too.
C6_FallsBackToFileLog ==
  \A call \in DOMAIN calls :
    (/\ call.pc = "done"
     /\ call.op \in HistoryQueries
     /\ call.build # 0
     /\ builds[call.build].pc = "failed") =>
       LET log == GitLogFile(repoCommits, _normalizeFilePath(call.path))
       IN /\ call.logOutcome \in {"ok", "failed"}
          /\ call.logOutcome = "ok" => call.result = FromHistory(call.op, log)
          /\ call.logOutcome = "failed" => call.result = FromHistory(call.op, <<>>)

\* the build failed, the per-file log of a.js answered, and the ownership
\* query reports the two commits of that log
C6_Witness ==
  \E call \in DOMAIN calls :
    /\ call.pc = "done"
    /\ call.op = "getFileOwnership"
    /\ call.build # 0
    /\ builds[call.build].pc = "failed"
    /\ call.logOutcome = "ok"
    /\ call.result.totalCommits = 2
    /\ call.result.primary # <<"Unknown">>

\* ------------------------------------------------------------------------
\* StaticAnalyzer: properties of the call graph and of dead-code detection
\* (specification SpecGraph)
\* ------------------------------------------------------------------------

AnalyzedPaths == PathsOf(analyses)

\* occurrences of x in the list s
Count(s, x) == Cardinality({i \in 1..Len(s) : s[i] = x})

\* C7: in the graph buildCallGraph returned, for all analyzed files A and B,
\* B occurs in calls(A) exactly as many times as A occurs in calledBy(B); in
\* particular B is in calls(A) if and only if A is in calledBy(B).
C7_CallsMirrorCalledBy ==
  callGraphBuilt =>
    \A A \in AnalyzedPaths, B \in AnalyzedPaths :
      /\ Count(callGraph[A].calls, B) = Count(callGraph[B].calledBy, A)
      /\ Includes(callGraph[A].calls, B) <=> Includes(callGraph[B].calledBy, A)

\* two imports of a file resolve to the same file, which also imports itself
C7_Witness ==
  /\ callGraphBuilt
  /\ \E A \in AnalyzedPaths, B \in AnalyzedPaths :
       /\ A # B
       /\ Count(callGraph[A].calls, B) = 2
       /\ Count(callGraph[B].calledBy, A) = 2
       /\ Count(callGraph[B].calls, B) = 1

\* C8: the nodes of the graph are exactly the analyzed files, and no calls or
\* calledBy entry names a path outside the analyzed set, whatever the imports
\* resolve to on disk.
C8_NodesAreAnalyzedFiles ==
  callGraphBuilt =>
    /\ DOMAIN callGraph = AnalyzedPaths
    /\ \A A \in DOMAIN callGraph :
         /\ SeqToSet(callGraph[A].calls) \subseteq AnalyzedPaths
         /\ SeqToSet(callGraph[A].calledBy) \subseteq AnalyzedPaths

\* a.js imports vendor.js, which is on disk but was not analyzed: a.js is a
\* node without edges
C8_Witness ==
  /\ callGraphBuilt
  /\ Vendor \in diskFiles
  /\ Vendor \notin AnalyzedPaths
  /\ \E i \in 1..Len(analyses) :
       /\ analyses[i].path = JsA
       /\ Includes(analyses[i].imports, ImportVendor)
  /\ callGraph[JsA] = EmptyNode
  /\ Len(analyses) = MaxFiles

\* the existence checks made for an import of fromFile, in the order made
ExistenceChecks(fromFile, importPath) ==
  LET candidates == getImportCandidates(fromFile, importPath)
  IN Flatten([i \in 1..Len(candidates) |->
                IF candidates[i] = <<>> THEN <<>> ELSE expandPathCandidates(candidates[i])])

\* the first existence check that names a regular file, NullPath without one
Resolution(fromFile, importPath) ==
  LET checks == ExistenceChecks(fromFile, importPath)
      hits == {i \in 1..Len(checks) : checks[i] \in diskFiles}
  IN IF hits = {} THEN NullPath
     ELSE checks[CHOOSE i \in hits : \A j \in hits : i <= j]

\* the imports of the analysis that resolve to an analyzed file
ResolvedImports(analysis) ==
  {k \in 1..Len(analysis.imports) :
     Resolution(analysis.path, analysis.imports[k]) \in AnalyzedPaths}

\* C9: for all analyzed files A and B, B is in calls(A) if and only if some
\* import of A resolves to B, the resolution being the first existence check
\* that names a regular file; imports that resolve to nothing or to a file
\* that was not analyzed add nothing, so calls(A) has one entry per import
\* that resolves to an analyzed file.
C9_EdgeIffImportResolves ==
  callGraphBuilt =>
    \A i \in 1..Len(analyses) :
      LET A == analyses[i].path
      IN /\ \A B \in AnalyzedPaths :
              Includes(callGraph[A].calls, B) <=>
                \E k \in 1..Len(analyses[i].imports) :
                  Resolution(A, analyses[i].imports[k]) = B
         /\ Len(callGraph[A].calls) = Cardinality(ResolvedImports(analyses[i]))

\* a.js imports the directory lib (an edge to lib/index.js), vendor.js (not
\* analyzed) and a file that does not exist
C9_Witness ==
  /\ callGraphBuilt
  /\ LibIndex \in AnalyzedPaths
  /\ \E i \in 1..Len(analyses) :
       /\ analyses[i].path = JsA
       /\ callGraph[JsA].calls = <<LibIndex>>
       /\ Resolution(JsA, ImportLib) = LibIndex
       /\ Resolution(JsA, ImportVendor) = Vendor
       /\ Resolution(JsA, ImportMissing) = NullPath
       /\ {ImportLib, ImportVendor, ImportMissing} \subseteq SeqToSet(analyses[i].imports)

\* the name of the file without its extension
Stem(filePath) == PathBasename(filePath, PathExtname(filePath))

\* the directories of the path
DirectorySegments(filePath) ==
  LET segments == SplitOn(filePath, SLASH)
  IN {segments[k] : k \in 1..(Len(segments) - 1)}

IsFlagged(filePath) ==
  \E k \in 1..Len(deadCode.deadFiles) : deadCode.deadFiles[k].path = filePath

\* C10: whatever call graph and includeTests option detectDeadCode was given,
\* no entry of its result names a file without exports or a file whose name
\* without extension is exactly index, main or app; a file in a directory
\* named main with another name is flagged when it has exports, nothing
\* references it and it is not skipped as a test file.
C10_EntryPointsAndNoExportsNeverDead ==
  deadCode.ran =>
    /\ \A i \in 1..Len(analyses) :
         (analyses[i].exports = <<>>
          \/ Stem(analyses[i].path) \in {<<"index">>, <<"main">>, <<"app">>}) =>
            ~IsFlagged(analyses[i].path)
    /\ \A k \in 1..Len(deadCode.deadFiles) : deadCode.deadFiles[k].exports # <<>>
    /\ \A i \in 1..Len(analyses) :
         LET p == analyses[i].path
         IN (/\ <<"main">> \in DirectorySegments(p)
             /\ Stem(p) \notin {<<"index">>, <<"main">>, <<"app">>}
             /\ analyses[i].exports # <<>>
             /\ p \in DOMAIN deadCode.callGraph
             /\ deadCode.callGraph[p].calledBy = <<>>
             /\ (deadCode.includeTests \/ ~isTestFile(p))) => IsFlagged(p)

\* nothing is referenced: main.js (an entry point) and a.js (no exports) are
\* not flagged, main/util.js and App.js are
C10_Witness ==
  /\ deadCode.ran
  /\ deadCode.callGraph = IsolatedGraph(analyses)
  /\ AnalyzedPaths = {MainJs, MainUtil, JsA}
  /\ \E i \in 1..Len(analyses) : analyses[i].path = JsA /\ analyses[i].exports = <<>>
  /\ \E i \in 1..Len(analyses) : analyses[i].path = MainJs /\ analyses[i].exports # <<>>
  /\ IsFlagged(MainUtil)
  /\ ~IsFlagged(MainJs)
  /\ ~IsFlagged(JsA)

\* the path has a directory named test, tests or __tests__, or the file name
\* ends in .test.<ext> or .spec.<ext>
IsTestPath(filePath) ==
  LET name == LastSegment(filePath)
      n == Len(name)
  IN \/ DirectorySegments(ToLowerCase(filePath)) \cap
          {<<"test">>, <<"tests">>, <<"__tests__">>} # {}
     \/ /\ n >= 4
        /\ name[n] \notin {DOT, SLASH, BSLASH}
        /\ name[n - 1] = DOT
        /\ LowerToken(name[n - 2]) \in {"test", "spec"}
        /\ name[n - 3] = DOT

\* the analysis is of a dead file for the inputs of the last detectDeadCode
IsDead(analysis) ==
  /\ deadCode.callGraph[analysis.path].calledBy = <<>>
  /\ analysis.exports # <<>>
  /\ Stem(analysis.path) \notin {<<"index">>, <<"main">>, <<"app">>}
  /\ (deadCode.includeTests \/ ~IsTestPath(analysis.path))

\* C11: when every analyzed path is a node of the graph given, the result of
\* detectDeadCode is, in the order of the analyses, one entry for each file
\* that has no incoming edge, has an export, is not named index, main or app,
\* and is no test file unless includeTests is set; with includeTests a test
\* file is treated like any other file.
C11_DeadIffFourConditions ==
  (deadCode.ran /\ AnalyzedPaths \subseteq DOMAIN deadCode.callGraph) =>
    LET expected == SelectSeq(analyses, IsDead)
    IN /\ Len(deadCode.deadFiles) = Len(expected)
       /\ \A k \in 1..Len(expected) :
            /\ deadCode.deadFiles[k].path = expected[k].path
            /\ deadCode.deadFiles[k].exports = expected[k].exports

\* with the built graph and without includeTests: a.js is referenced, the
\* spec file is skipped as a test file, App.js is flagged
C11_Witness ==
  /\ deadCode.ran
  /\ callGraphBuilt
  /\ deadCode.callGraph = callGraph
  /\ ~deadCode.includeTests
  /\ Len(analyses) = 3
  /\ analyses[1].path = LibSpec
  /\ analyses[2].path = AppCapital
  /\ analyses[3].path = JsA
  /\ analyses[3].exports # <<>>
  /\ callGraph[JsA].calledBy = <<LibSpec>>
  /\ Len(deadCode.deadFiles) = 1
  /\ deadCode.deadFiles[1].path = AppCapital

\* ------------------------------------------------------------------------
\* GitAnalyzer: properties of the queries (specification SpecQuery)

\* the file of the repository a path names
FileNamed(filePath) ==
  IF filePath \in {FileA, RepoFile(FileA), <<DOT, SLASH>> \o FileA} THEN FileA ELSE filePath

QueriedFile == FileNamed(query.path)

\* the commits of the repository that touch the file, most recent first
Touching(file) == SelectSeq(logCommits, LAMBDA c : Includes(c.files, file))

\* S: the commits touching the queried file; count(F): those that touch F too
CommitsOfQueried == {i \in 1..Len(logCommits) : Includes(logCommits[i].files, QueriedFile)}

CountWith(file) ==
  Cardinality({i \in CommitsOfQueried : Includes(logCommits[i].files, file)})

OtherFiles == UNION {SeqToSet(logCommits[i].files) : i \in 1..Len(logCommits)} \ {QueriedFile}

\* C12: getFilesChangedTogether never lists the queried file itself, and every
\* way of naming the same file (relative to the repository, absolute inside
\* it) gives the same result
C12_QueriedFileExcluded ==
  query.op = "getFilesChangedTogether" =>
    /\ \A k \in 1..Len(answer) : answer[k].file # QueriedFile
    /\ \A other \in QueryPaths :
         FileNamed(other) = QueriedFile =>
           answer = getFilesChangedTogether(other, query.threshold)

C12_Witness ==
  /\ query.op = "getFilesChangedTogether"
  /\ query.path = RepoFile(FileA)
  /\ CommitsOfQueried # {}
  /\ answer # <<>>

\* C13: getFilesChangedTogether returns exactly the other files F with
\* count(F)/|S| >= threshold, each once, with its count and the correlation
\* count/|S|, which lies between the threshold and 1; the entries are in order
\* of non-increasing correlation; the result is empty when the file has no
\* history
C13_ExactlyFilesAboveThreshold ==
  query.op = "getFilesChangedTogether" =>
    LET total == Cardinality(CommitsOfQueried)
        expected == {file \in OtherFiles :
                       /\ CountWith(file) > 0
                       /\ CountWith(file) * query.threshold.den >= query.threshold.num * total}
    IN /\ {answer[k].file : k \in 1..Len(answer)} = expected
       /\ Len(answer) = Cardinality(expected)
       /\ \A k \in 1..Len(answer) :
            /\ answer[k].count = CountWith(answer[k].file)
            /\ answer[k].correlation = Ratio(answer[k].count, total)
            /\ answer[k].count * query.threshold.den >= query.threshold.num * total
            /\ answer[k].count <= total
       /\ \A k \in 1..(Len(answer) - 1) : answer[k].count >= answer[k + 1].count
       /\ (total = 0 => answer = <<>>)

C13_Witness ==
  /\ query.op = "getFilesChangedTogether"
  /\ query.path = FileA
  /\ query.threshold = Ratio(3, 10)
  /\ Len(logCommits) = 2
  /\ logCommits[1].files = <<FileA, FileB>>
  /\ logCommits[2].files = <<FileA>>
  /\ answer = <<[file |-> FileB, count |-> 1, correlation |-> Ratio(1, 2)]>>

\* C14: getChangeFrequency returns 0 for a file with fewer than two commits,
\* and 0 when the span from its oldest (last listed) to its newest (first
\* listed) commit is not positive or a date cannot be parsed; otherwise it
\* returns the number of commits divided by that span in days, which is
\* positive
C14_ChangeFrequencyValue ==
  query.op = "getChangeFrequency" =>
    LET history == Touching(QueriedFile)
        newest == DateParse(history[1].date)
        oldest == DateParse(history[Len(history)].date)
    IN IF Len(history) < 2 THEN answer = Zero
       ELSE IF newest = NaN \/ oldest = NaN THEN answer = Zero
       ELSE IF newest - oldest <= 0 THEN answer = Zero
       ELSE /\ answer = Ratio(Len(history), newest - oldest)
            /\ answer.num > 0
            /\ answer.den > 0

C14_Witness ==
  /\ query.op = "getChangeFrequency"
  /\ Len(Touching(QueriedFile)) = 3
  /\ answer = Ratio(3, 4)

AuthorsOf(history) == {history[i].author_name : i \in 1..Len(history)}

CommitsBy(history, author) ==
  Cardinality({i \in 1..Len(history) : history[i].author_name = author})

FirstMet(history, author) ==
  CHOOSE i \in 1..Len(history) :
    /\ history[i].author_name = author
    /\ \A j \in 1..(i - 1) : history[j].author_name # author

RECURSIVE SumOfCommits(_)
SumOfCommits(contributors) ==
  IF contributors = <<>> THEN 0
  ELSE Head(contributors).commits + SumOfCommits(Tail(contributors))

\* C15: getFileOwnership returns one contributor per distinct author of the
\* history, in order of non-increasing count; totalCommits is the length of
\* the history and the sum of the counts; primary is the first contributor,
\* an author with the maximum count and, among those, the one met first in
\* the history; for an empty history it is 'Unknown' with no contributors and
\* 0 commits
C15_PrimaryIsFirstMetMaximum ==
  query.op = "getFileOwnership" =>
    LET history == Touching(QueriedFile)
        contributors == answer.contributors
    IN IF history = <<>>
       THEN answer = [primary |-> Unknown, contributors |-> <<>>, totalCommits |-> 0]
       ELSE /\ Len(contributors) = Cardinality(AuthorsOf(history))
            /\ {contributors[k].author : k \in 1..Len(contributors)} = AuthorsOf(history)
            /\ \A k \in 1..Len(contributors) :
                 contributors[k].commits = CommitsBy(history, contributors[k].author)
            /\ \A k \in 1..(Len(contributors) - 1) :
                 contributors[k].commits >= contributors[k + 1].commits
            /\ answer.totalCommits = Len(history)
            /\ answer.totalCommits = SumOfCommits(contributors)
            /\ answer.primary = contributors[1].author
            /\ \A author \in AuthorsOf(history) :
                 /\ CommitsBy(history, answer.primary) >= CommitsBy(history, author)
                 /\ CommitsBy(history, answer.primary) = CommitsBy(history, author) =>
                      FirstMet(history, answer.primary) <= FirstMet(history, author)

\* C16: the history getFileHistory returns is the subsequence of the commit
\* list of the index, itself in the order of the log, made of the commits
\* that touch the file
C16_HistoryIsSubsequenceOfLog ==
  query.op = "getFileHistory" =>
    LET touching == {c.hash : c \in SeqToSet(Touching(QueriedFile))}
    IN /\ queryIndex.commits = [i \in 1..Len(logCommits) |-> CommitInfo(logCommits[i])]
       /\ answer = SelectSeq(queryIndex.commits, LAMBDA c : c.hash \in touching)

C16_Witness ==
  /\ query.op = "getFileHistory"
  /\ query.path = FileA
  /\ Len(logCommits) = 3
  /\ ~Includes(logCommits[2].files, FileA)
  /\ Len(answer) = 2
  /\ answer[1].hash = logCommits[1].hash
  /\ answer[2].hash = logCommits[3].hash

\* ------------------------------------------------------------------------
\* StaticAnalyzer.analyzeDirectory: properties of the walk (specifications
\* SpecWalk and SpecWalkLive)

\* the path below the root, in lower case
RootRelative(p) == ToLowerCase(SubSeq(p, Len(RepoPath) + 2, Len(p)))

\* the pattern is a whole segment of the relative path, or the relative path
\* itself, or a leading directory prefix of it
MatchesPattern(relative, pattern) ==
  \/ pattern \in SeqToSet(SplitOn(relative, SLASH))
  \/ relative = pattern
  \/ StartsWith(relative, pattern \o <<SLASH>>)

IgnoredByRule(p) ==
  \E i \in 1..Len(normalizedPatterns) : MatchesPattern(RootRelative(p), normalizedPatterns[i])

\* the supported files that can be read and are reached from the real
\* directory through directories only (no link is followed), none of them
\* ignored
RECURSIVE ReadableFilesBelow(_)
ReadableFilesBelow(realDir) ==
  IF realDir \in tree.unlistable \cup tree.unsearchable THEN {}
  ELSE UNION { LET entry == tree.entries[realDir][i]
                   child == realDir \o <<SLASH>> \o entry.name
               IN IF IgnoredByRule(child) THEN {}
                  ELSE IF entry.kind = "file"
                  THEN (IF PathExtname(child) \in LanguageExtensions THEN {child} ELSE {})
                  ELSE IF entry.kind = "dir" THEN ReadableFilesBelow(child)
                  ELSE {} : i \in 1..Len(tree.entries[realDir]) }

\* the files returned, under their real paths
ReturnedFiles == {Realpath(tree, walkAnalyses[i]) : i \in 1..Len(walkAnalyses)}

EverythingReadable == tree.unlistable = {} /\ tree.unsearchable = {}

\* C17: analyzeDirectory terminates on every tree, also when links form
\* cycles; no real directory is listed twice in a run; on a readable tree it
\* returns, and what it returns holds every supported file reached without
\* following a link, so it is not empty when there is such a file
C17_WalkTerminatesOnCycles ==
  /\ [](\A i, j \in 1..Len(readdirs) : i # j => readdirs[i] # readdirs[j])
  /\ [](EverythingReadable => walkPc # "failed")
  /\ []((walkPc = "returned" /\ EverythingReadable) =>
          /\ ReadableFilesBelow(RepoPath) \subseteq ReturnedFiles
          /\ ReadableFilesBelow(RepoPath) # {} => walkAnalyses # <<>>)
  /\ <>(walkPc \in {"returned", "failed"})

C17_Witness ==
  /\ walkPc = "returned"
  /\ EverythingReadable
  /\ [path |-> SrcDir \o <<SLASH, "up">>, ignored |-> FALSE] \in examined
  /\ Realpath(tree, SrcDir \o <<SLASH, "up">>) = RepoPath
  /\ [path |-> UtilsDir \o <<SLASH, "back">>, ignored |-> FALSE] \in examined
  /\ Realpath(tree, UtilsDir \o <<SLASH, "back">>) = SrcDir
  /\ Len(readdirs) >= 3
  /\ walkAnalyses # <<>>

\* C18: a broken link or a permission error met during the walk only skips
\* the entry concerned: analyzeDirectory does not fail, and it returns every
\* other supported file that can be read
C18_ErrorsOnlySkipEntries ==
  /\ walkPc # "failed"
  /\ walkPc = "returned" => ReadableFilesBelow(RepoPath) \subseteq ReturnedFiles

\* C19: shouldIgnore skips an entry exactly when a pattern is, without regard
\* to case, a whole segment of its root-relative path, that path itself or a
\* leading directory prefix of it; a pattern inside a longer segment does not
\* match
C19_SegmentAwareIgnore ==
  \A e \in examined : e.ignored <=> IgnoredByRule(e.path)

C19_Witness ==
  /\ walkPc = "returned"
  /\ normalizedPatterns = <<<<"build">>>>
  /\ [path |-> BuildCapDir, ignored |-> TRUE] \in examined
  /\ [path |-> SrcBuildDir, ignored |-> TRUE] \in examined
  /\ [path |-> UtilsDir, ignored |-> FALSE] \in examined
  /\ Includes(walkAnalyses, UtilsDir \o <<SLASH, "u", DOT, "js">>)

\* ------------------------------------------------------------------------
\* StaticAnalyzer.calculateComplexity: properties (specification
\* SpecComplexity)

RECURSIVE WeightOf(_)
WeightOf(list) ==
  IF list = <<>> THEN 0
  ELSE Head(list).keywords + Head(list).logical + Head(list).ternaries + WeightOf(Tail(list))

\* C20: calculateComplexity(content) is at least 1 and is 1 plus the number
\* of whole-word keywords if, else, for, while, switch, case, try, catch,
\* plus the number of && and ||, plus one for every conditional expression;
\* optional chaining and nullish coalescing add nothing
C20_ComplexityCountsBranches ==
  complexity # 0 =>
    /\ complexity >= 1
    /\ complexity = 1 + WeightOf(pieces)

\* ------------------------------------------------------------------------
\* GitAnalyzer: co-change while the index cannot be built (specification Spec)
\* ------------------------------------------------------------------------

\* the co-change list of a file, computed from the history the repository holds
CoChangeOfRepository(filePath, threshold) ==
  LET normalizedPath == _normalizeFilePath(filePath)
  IN FilesChangedTogether(_parseRepositoryLog(FormatLog(repoCommits)),
                          GitLogFile(repoCommits, normalizedPath),
                          normalizedPath, threshold)

\* C21: when the index build a getFilesChangedTogether call awaited failed at
\* the full log, the call still returns the co-change list of its file (the
\* list the per-file and per-commit invocations give) whenever the file has
\* history, and not the empty list.
C21_CoChangeSurvivesIndexFailure ==
  \A call \in DOMAIN calls :
    (/\ call.pc = "done"
     /\ call.op = "getFilesChangedTogether"
     /\ call.build # 0
     /\ builds[call.build].pc = "failed"
     /\ isRepo
     /\ GitLogFile(repoCommits, _normalizeFilePath(call.path)) # <<>>) =>
       /\ call.result = CoChangeOfRepository(call.path, call.threshold)
       /\ call.result # <<>>

\* ------------------------------------------------------------------------
\* StaticAnalyzer: edge lists, resolution order (specification SpecGraph)
\* ------------------------------------------------------------------------

\* C22: in the graph buildCallGraph returned, no path occurs twice in
\* calls(A) and no path occurs twice in calledBy(B), also when several
\* specifiers of A resolve to the same file B.
C22_EdgeListsAreSets ==
  callGraphBuilt =>
    \A A \in AnalyzedPaths, B \in AnalyzedPaths :
      /\ Count(callGraph[A].calls, B) <= 1
      /\ Count(callGraph[B].calledBy, A) <= 1

\* ------------------------------------------------------------------------
\* GitAnalyzer: properties of the parse of a log (specification SpecLog)
\* ------------------------------------------------------------------------

ParsedIndex == parsedLog.index

\* no element occurs twice in the list
NoRepeats(s) == \A i, j \in 1..Len(s) : s[i] = s[j] => i = j

\* C23: for any log text, after _parseRepositoryLog no commit's file list
\* holds a path twice and no file's commit list holds a commit twice, also
\* when a path is listed more than once under one header.
C23_ParsedListsHaveNoRepeats ==
  parsedLog.parsed =>
    /\ \A h \in DOMAIN ParsedIndex.commitFilesMap : NoRepeats(ParsedIndex.commitFilesMap[h])
    /\ \A f \in DOMAIN ParsedIndex.fileCommitsMap : NoRepeats(ParsedIndex.fileCommitsMap[f])

\* the lines of the text
TextLines == SplitOn(logText, NL)

\* the line has four tab-separated parts or more and starts with a hash
IsHeaderLine(line) ==
  LET parts == SplitOn(line, TAB)
  IN Len(parts) >= 4 /\ Len(parts[1]) = 1 /\ parts[1][1] \in HexTokens

HeaderPositions == {i \in 1..Len(TextLines) : TextLines[i] # <<>> /\ IsHeaderLine(TextLines[i])}

HashOfLine(i) == SplitOn(TextLines[i], TAB)[1]

DistinctHashes == \A i, j \in HeaderPositions : HashOfLine(i) = HashOfLine(j) => i = j

\* the paths named by the lines that follow a header
PathsAfterHeaders ==
  {ToForwardSlashes(Trim(TextLines[i])) :
     i \in {k \in 1..Len(TextLines) :
              /\ k \notin HeaderPositions
              /\ Trim(TextLines[k]) # <<>>
              /\ \E j \in HeaderPositions : j < k}}

HashesOf(commits) == {commits[i].hash : i \in 1..Len(commits)}

\* C28: for a log whose headers carry pairwise distinct hashes, the keys of
\* the commit->files mapping are exactly the hashes of the commit list, file F
\* is in the file list of commit h if and only if commit h is in the commit
\* list of F, and the lines before the first header create no entry: the
\* files known are those named after a header.
C28_ParsedStructuresAgree ==
  (parsedLog.parsed /\ DistinctHashes) =>
    /\ DOMAIN ParsedIndex.commitFilesMap = HashesOf(ParsedIndex.commits)
    /\ Len(ParsedIndex.commits) = Cardinality(HeaderPositions)
    /\ \A h \in DOMAIN ParsedIndex.commitFilesMap :
         \A f \in DOMAIN ParsedIndex.fileCommitsMap \cup SeqToSet(ParsedIndex.commitFilesMap[h]) :
           Includes(ParsedIndex.commitFilesMap[h], f) <=>
             /\ f \in DOMAIN ParsedIndex.fileCommitsMap
             /\ h \in HashesOf(ParsedIndex.fileCommitsMap[f])
    /\ \A f \in DOMAIN ParsedIndex.fileCommitsMap :
         HashesOf(ParsedIndex.fileCommitsMap[f]) \subseteq DOMAIN ParsedIndex.commitFilesMap
    /\ DOMAIN ParsedIndex.fileCommitsMap = PathsAfterHeaders

\* a path line precedes the first of two headers, and each commit has a file
C28_Witness ==
  /\ parsedLog.parsed
  /\ DistinctHashes
  /\ Cardinality(HeaderPositions) = 2
  /\ 1 \notin HeaderPositions
  /\ TextLines[1] = FileB
  /\ DOMAIN ParsedIndex.fileCommitsMap = {FileA}
  /\ Len(ParsedIndex.fileCommitsMap[FileA]) = 1

\* ------------------------------------------------------------------------
\* StaticAnalyzer: the steps of import resolution (specification SpecLayout)
\* ------------------------------------------------------------------------

\* the first path of the list that is a regular file on disk, NullPath if none
FirstOnDisk(checks) ==
  LET hits == {i \in 1..Len(checks) : checks[i] \in diskFiles}
  IN IF hits = {} THEN NullPath
     ELSE checks[CHOOSE i \in hits : \A j \in hits : i <= j]

\* the targets of the imports, in order, that are analyzed files
EdgesOf(analysis, Target(_, _)) ==
  LET targets == [k \in 1..Len(analysis.imports) |-> Target(analysis.path, analysis.imports[k])]
  IN SelectSeq(targets, LAMBDA t : t # NullPath /\ t \in AnalyzedPaths)

\* the alias pattern matches the specifier: the same text, or for a wildcard
\* pattern a specifier that begins with the text before the wildcard
PatternMatches(alias, importPath) ==
  IF alias.hasWildcard THEN StartsWith(importPath, alias.prefix)
  ELSE importPath = alias.pattern

MatchingAliases(importPath) ==
  SelectSeq(pathResolutionConfig.pathAliases, LAMBDA alias : PatternMatches(alias, importPath))

\* the targets of the alias with the rest of the specifier put for the wildcard
Substituted(alias, importPath) ==
  [i \in 1..Len(alias.targets) |->
     IF alias.hasWildcard /\ alias.targets[i].hasWildcard
     THEN alias.targets[i].prefix \o SubSeq(importPath, Len(alias.prefix) + 1, Len(importPath))
     ELSE alias.targets[i].prefix]

LooksLikeProjectPath(importPath) ==
  \/ \E i \in 1..Len(importPath) : importPath[i] = SLASH
  \/ importPath[1] \in {AT, TILDE}
  \/ PathExtname(importPath) # <<>>

\* the step that applies to the specifier
StepOf(importPath) ==
  IF importPath = <<>> THEN "external"
  ELSE IF importPath[1] = DOT THEN "relative"
  ELSE IF MatchingAliases(importPath) # <<>> THEN "alias"
  ELSE IF pathResolutionConfig.baseUrl # NullPath /\ LooksLikeProjectPath(importPath)
  THEN "base"
  ELSE "external"

\* the places the step that applies looks at
PlacesOf(fromFile, importPath) ==
  LET step == StepOf(importPath)
      matching == MatchingAliases(importPath)
  IN CASE step = "relative" -> <<PathResolve(PathDirname(fromFile), importPath)>>
       [] step = "alias" ->
            Flatten([i \in 1..Len(matching) |-> Substituted(matching[i], importPath)])
       [] step = "base" -> <<PathResolve(pathResolutionConfig.baseUrl, importPath)>>
       [] OTHER -> <<>>

TargetByStep(fromFile, importPath) ==
  LET places == PlacesOf(fromFile, importPath)
  IN FirstOnDisk(Flatten([i \in 1..Len(places) |-> expandPathCandidates(places[i])]))

\* C24: the edges of every analyzed file are those of its imports resolved by
\* the one step that applies: a specifier starting with "." against the
\* directory of the importing file only; otherwise, when an alias pattern
\* matches, against the alias targets only; otherwise against the base root,
\* only if one is configured and the specifier has a "/", starts with "@" or
\* "~" or has an extension; any other specifier gives no edge.
C24_ResolutionStepsInOrder ==
  callGraphBuilt =>
    \A i \in 1..Len(analyses) :
      callGraph[analyses[i].path].calls = EdgesOf(analyses[i], TargetByStep)

\* with the alias @/* -> lib/* and lib/x.js missing, a.js imports ./b, @/x and
\* fs while @/x.js and fs.js exist and @/x.js is analyzed: there is no edge,
\* although the base root would find @/x.js
C24_Witness ==
  /\ callGraphBuilt
  /\ \E i \in 1..Len(analyses) :
       LET A == analyses[i].path
           root == PathDirname(A)
       IN /\ analyses[i].imports = <<ImportB, ImportAtX, ImportFs>>
          /\ StepOf(ImportB) = "relative"
          /\ StepOf(ImportAtX) = "alias"
          /\ StepOf(ImportFs) = "external"
          /\ At(root, RelLibX) \notin diskFiles
          /\ At(root, RelAtX) \in diskFiles
          /\ At(root, RelFs) \in diskFiles
          /\ AnalyzedPaths = {A, At(root, RelAtX)}
          /\ callGraph[A].calls = <<>>
          /\ FirstOnDisk(expandPathCandidates(At(root, ImportAtX))) = At(root, RelAtX)

\* the extensions tried, in the order tried
ExtensionsInOrder ==
  << <<DOT, "js">>, <<DOT, "jsx">>, <<DOT, "mjs">>, <<DOT, "cjs">>, <<DOT, "ts">>,
     <<DOT, "tsx">>, <<DOT, "mts">>, <<DOT, "cts">>, <<DOT, "py">>, <<DOT, "java">>,
     <<DOT, "go">> >>

HasExtension(p) ==
  LET name == LastSegment(p)
  IN \E i \in 2..Len(name) : name[i] = DOT /\ i < Len(name)

\* the existence checks for the candidate X: X, then X+ext if X has no
\* extension, then X/index.ext
ChecksInOrder(X) ==
  <<X>>
  \o (IF HasExtension(X) THEN <<>>
      ELSE [e \in 1..Len(ExtensionsInOrder) |-> X \o ExtensionsInOrder[e]])
  \o [e \in 1..Len(ExtensionsInOrder) |-> X \o <<SLASH, "index">> \o ExtensionsInOrder[e]]

TargetByChecks(fromFile, importPath) ==
  LET candidates == getImportCandidates(fromFile, importPath)
  IN FirstOnDisk(Flatten([i \in 1..Len(candidates) |->
                            ChecksInOrder(PathNormalize(candidates[i]))]))

\* C25: every import resolves to the first regular file among the checks made
\* for its candidates: X itself, then (only if X has no extension) X.js,
\* X.jsx, X.mjs, X.cjs, X.ts, X.tsx, X.mts, X.cts, X.py, X.java, X.go, then
\* X/index with the same extensions in the same order; a directory is never
\* the resolution, and an import none of whose checks names a regular file
\* gives no edge.
C25_ExistenceChecksInOrder ==
  callGraphBuilt =>
    /\ \A i \in 1..Len(analyses) :
         callGraph[analyses[i].path].calls = EdgesOf(analyses[i], TargetByChecks)
    /\ \A i \in 1..Len(analyses) :
         \A k \in 1..Len(callGraph[analyses[i].path].calls) :
           callGraph[analyses[i].path].calls[k] \notin Directories

\* b.js and b/index.js both exist and ./b gives the edge to b.js; the alias
\* target lib/x of @/x exists under no name and @/x gives no edge
C25_Witness ==
  /\ callGraphBuilt
  /\ \E i \in 1..Len(analyses) :
       LET A == analyses[i].path
           root == PathDirname(A)
       IN /\ analyses[i].imports = <<ImportB, ImportAtX, ImportFs>>
          /\ {At(root, RelB), At(root, RelBIndex)} \subseteq diskFiles
          /\ At(root, <<"b">>) \in Directories
          /\ getImportCandidates(A, ImportAtX) = <<At(root, <<"lib", SLASH, "x">>)>>
          /\ \A c \in SeqToSet(ChecksInOrder(At(root, <<"lib", SLASH, "x">>))) : c \notin diskFiles
          /\ AnalyzedPaths = {A, At(root, RelB)}
          /\ callGraph[A].calls = <<At(root, RelB)>>

\* the specifier begins with the text before the wildcard of the pattern
\* but is not that text followed by "/" and a suffix
MerelyBeginsWith(alias, importPath) ==
  /\ alias.hasWildcard
  /\ StartsWith(importPath, alias.prefix)
  /\ ~(StartsWith(importPath, alias.prefix \o <<SLASH>>)
       /\ Len(importPath) > Len(alias.prefix) + 1)

\* the files an import could resolve to through the alias
ThroughAlias(alias, importPath) ==
  LET places == Substituted(alias, importPath)
  IN UNION {SeqToSet(expandPathCandidates(places[t])) : t \in 1..Len(places)}

\* C30: a wildcard pattern P/* rewrites a specifier only when it is P followed
\* by "/" and a suffix: for a specifier that merely begins with the characters
\* of P the alias gives no candidate, and the importing file gets no edge to
\* a file reached through the alias.
C30_WildcardNeedsSeparator ==
  callGraphBuilt =>
    \A i \in 1..Len(analyses) :
      \A k \in 1..Len(analyses[i].imports) :
        \A a \in 1..Len(pathResolutionConfig.pathAliases) :
          LET alias == pathResolutionConfig.pathAliases[a]
              importPath == analyses[i].imports[k]
          IN MerelyBeginsWith(alias, importPath) =>
               /\ AliasCandidates(alias, importPath) = <<>>
               /\ SeqToSet(callGraph[analyses[i].path].calls)
                    \cap ThroughAlias(alias, importPath) = {}

\* the path with the checkout root taken off
RootOf(p) == CHOOSE root \in CheckoutRoots : StartsWith(p, root \o <<SLASH>>)

InLayout(p) == SubSeq(p, Len(RootOf(p)) + 2, Len(p))

MovedPaths(list, root) == [i \in 1..Len(list) |-> At(root, InLayout(list[i]))]

\* the same layout and the same references, checked out at root
MovedAnalyses(list, root) ==
  [i \in 1..Len(list) |->
     FileAnalysis(At(root, InLayout(list[i].path)), list[i].imports, list[i].exports)]

MovedGraph(graph, root) ==
  [p \in {At(root, InLayout(q)) : q \in DOMAIN graph} |->
     LET q == CHOOSE x \in DOMAIN graph : At(root, InLayout(x)) = p
     IN [calls |-> MovedPaths(graph[q].calls, root),
         calledBy |-> MovedPaths(graph[q].calledBy, root)]]

DeadInLayout(deadFiles) == [k \in 1..Len(deadFiles) |-> InLayout(deadFiles[k].path)]

\* C29: the dead-code list depends on the layout only: the same layout with
\* the same references checked out at any other place gives the same list of
\* files (named relative to the checkout).
C29_DeadCodeIgnoresCheckoutPlace ==
  deadCode.ran =>
    \A root \in CheckoutRoots :
      DeadInLayout(deadCode.deadFiles) =
        DeadInLayout(detectDeadCode(MovedAnalyses(analyses, root),
                                    MovedGraph(deadCode.callGraph, root),
                                    deadCode.includeTests))

\* ------------------------------------------------------------------------
\* ast-extractor: properties of export-name inference (specification
\* SpecExport)
\* ------------------------------------------------------------------------

\* the statement is module.exports = <value> or export = <value>
AssignsTheExports ==
  \/ exportStatement.type = "TSExportAssignment"
  \/ /\ exportStatement.type = "AssignmentExpression"
     /\ exportStatement.left = Member(<<"module", DOT, "exports">>)

AssignedValue == exportStatement.right

\* the keys of the members of the object literal that have a key
KeysOf(node) ==
  {node.properties[i].key.name :
     i \in {j \in 1..Len(node.properties) :
              /\ node.properties[j].type \in {"ObjectProperty", "ObjectMethod"}
              /\ node.properties[j].key.name # NoName}}

\* C27: for module.exports = <value> and export = <value>: an identifier, a
\* named function and a named class give exactly their name, an anonymous
\* function or class gives default, an object literal gives exactly its
\* property keys (none when it has no keys), any other expression gives
\* default.
C27_ExportNamesOfAssignedValue ==
  (exportNames.visited /\ AssignsTheExports) =>
    LET value == AssignedValue
        names == SeqToSet(exportNames.names)
    IN IF value.type = "Identifier" THEN names = {value.name}
       ELSE IF value.type \in {"FunctionExpression", "ArrowFunctionExpression",
                               "ClassExpression"}
       THEN names = {IF value.name # NoName THEN value.name ELSE <<"default">>}
       ELSE IF value.type = "ObjectExpression" THEN names = KeysOf(value)
       ELSE names = {<<"default">>}

\* ------------------------------------------------------------------------
\* StaticAnalyzer: properties of the configuration chain (specifications
\* SpecConfig and SpecConfigLive)
\* ------------------------------------------------------------------------

ChainPaths == [i \in 1..Len(configChain) |-> configChain[i].configPath]

\* the files the extends entries of the file name
ExtendedBy(file) ==
  {resolveExtendedConfigPath(configDisk[file].extends[e], PathDirname(file)) :
     e \in 1..Len(configDisk[file].extends)} \ {NullPath}

RECURSIVE ReachedIn(_, _)
ReachedIn(files, n) ==
  IF n = 0 THEN files
  ELSE ReachedIn(files \cup UNION {ExtendedBy(f) : f \in files}, n - 1)

\* the files reached from the file along one or more extends entries
ExtendedThrough(file) == ReachedIn(ExtendedBy(file), Cardinality(DOMAIN configDisk))

OnOneCycle(x, y) == x \in ExtendedThrough(y) /\ y \in ExtendedThrough(x)

Acyclic == \A f \in DOMAIN configDisk : f \notin ExtendedThrough(f)

\* the last configuration of the chain that gives a base root, 0 if none does
LastWithBaseUrl ==
  LET given == {i \in 1..Len(configChain) : configChain[i].config.baseUrl # NullPath}
  IN IF given = {} THEN 0 ELSE CHOOSE i \in given : \A j \in given : j <= i

PatternsOf(config) == {config.paths[k].pattern : k \in 1..Len(config.paths)}

\* the entry for the pattern in the last configuration of the chain that has one
LastEntryFor(pattern) ==
  LET having == {i \in 1..Len(configChain) : pattern \in PatternsOf(configChain[i].config)}
      last == CHOOSE i \in having : \A j \in having : j <= i
      paths == configChain[last].config.paths
  IN paths[CHOOSE k \in 1..Len(paths) : paths[k].pattern = pattern]

LoadedAliasFor(pattern) ==
  LET aliases == loadedConfig.pathAliases
  IN aliases[CHOOSE a \in 1..Len(aliases) : aliases[a].pattern = pattern]

\* applying the chain in order: later configurations replace the base root
\* and, pattern by pattern, the alias targets of earlier ones; the
\* configuration that was loaded is the last one
LeafSettingsWin ==
  configChain # <<>> =>
    /\ configChain[Len(configChain)].configPath = TsConfig
    /\ loadedConfig.baseUrl =
         IF LastWithBaseUrl = 0 THEN RepoPath
         ELSE PathResolve(PathDirname(configChain[LastWithBaseUrl].configPath),
                          configChain[LastWithBaseUrl].config.baseUrl)
    /\ {loadedConfig.pathAliases[a].pattern : a \in 1..Len(loadedConfig.pathAliases)}
         = UNION {PatternsOf(configChain[i].config) : i \in 1..Len(configChain)}
    /\ \A pattern \in UNION {PatternsOf(configChain[i].config) : i \in 1..Len(configChain)} :
         <<LoadedAliasFor(pattern)>> =
           parsePathAliases(<<LastEntryFor(pattern)>>, loadedConfig.baseUrl)
    /\ \A pattern \in PatternsOf(configDisk[TsConfig]) :
         LastEntryFor(pattern) \in SeqToSet(configDisk[TsConfig].paths)
    /\ configDisk[TsConfig].baseUrl # NullPath =>
         loadedConfig.baseUrl = PathResolve(RepoPath, configDisk[TsConfig].baseUrl)

\* every configuration of the chain comes after the configurations it extends
AfterWhatItExtends ==
  \A i, j \in 1..Len(configChain) :
    ChainPaths[j] \in ExtendedBy(ChainPaths[i]) => j < i

\* the same, but for two configurations that extend each other through a cycle
AfterWhatItExtendsOffCycles ==
  \A i, j \in 1..Len(configChain) :
    (ChainPaths[j] \in ExtendedBy(ChainPaths[i]) /\ ~OnOneCycle(ChainPaths[i], ChainPaths[j]))
      => j < i

ConfigLoaded == configPc = "done"

C26_WitnessCycle ==
  /\ ConfigLoaded
  /\ TsConfig \in ExtendedBy(BaseConfig)
  /\ BaseConfig \in ExtendedBy(TsConfig)
  /\ ChainPaths = <<BaseConfig, TsConfig>>

====
